---------------------------- MODULE Spec2Model ----------------------------
(***************************************************************************)
(* Formatted-output engine of the BareMetal SDK (yalibc printf family),    *)
(* the Ryu binary64-to-decimal core it depends on, and the spin-lock that  *)
(* serialises the console.                                                 *)
(*                                                                         *)
(* Characters are ASCII codes.  C integers wider than 31 bits are kept as  *)
(* little-endian sequences of 8-bit limbs so that 64- and 128-bit          *)
(* arithmetic keeps its width.                                             *)
(***************************************************************************)
EXTENDS Integers, Sequences, FiniteSets, TLC

VARIABLES
    hs,           \* per-hart state of the printf call the hart is executing
    printf_lock,  \* static atomic_int printf_lock
    console,      \* characters handed to putchar(), tagged with hart and call
    mem,          \* per-hart destination buffer of a bounded write
    results,      \* (entry, capacity, return value, emitted text) of finished calls
    ryu,          \* state of the decimal-conversion harness
    ita,          \* state of the integer-rendering harness
    fo,           \* state of the field-formatter harness
    sl,           \* state of the strnlen harness
    heap,         \* the allocator's statics and the history of its calls
    pa            \* state of the directive-parser harness

vars == <<hs, printf_lock, console, mem, results, ryu, ita, fo, sl, heap, pa>>

-----------------------------------------------------------------------------
(* Unsigned multi-limb integers: little-endian sequences over 0..255.      *)

Limb(a, k) == IF k >= 1 /\ k <= Len(a) THEN a[k] ELSE 0

MaxOf(x, y) == IF x >= y THEN x ELSE y
MinOf(x, y) == IF x <= y THEN x ELSE y

RECURSIVE UNorm(_)
UNorm(a) ==
    IF a = <<>> THEN <<>>
    ELSE IF a[Len(a)] = 0 THEN UNorm(SubSeq(a, 1, Len(a) - 1)) ELSE a

\* a mod 256^n, as exactly n limbs
UFix(a, n) == [k \in 1..n |-> Limb(a, k)]

RECURSIVE UFromInt(_)
UFromInt(n) == IF n = 0 THEN <<>> ELSE <<n % 256>> \o UFromInt(n \div 256)

RECURSIVE UToIntFrom(_, _)
UToIntFrom(a, k) == IF k > Len(a) THEN 0 ELSE a[k] + 256 * UToIntFrom(a, k + 1)
\* value of a, which must be below 2^31
UToInt(a) == UToIntFrom(UNorm(a), 1)

\* propagate carries (or borrows) through column values, keeping n limbs
RECURSIVE UCarry(_, _, _, _)
UCarry(cols, k, c, n) ==
    IF k > n THEN <<>>
    ELSE LET t1 == Limb(cols, k) + c
             t2 == Limb(cols, k + 1) + (t1 \div 256)
             t3 == Limb(cols, k + 2) + (t2 \div 256)
             t4 == Limb(cols, k + 3) + (t3 \div 256)
         IN  SubSeq(<<t1 % 256, t2 % 256, t3 % 256, t4 % 256>>, 1, MinOf(4, n - k + 1))
             \o UCarry(cols, k + 4, t4 \div 256, n)

UAddN(a, b, n) ==
    UCarry([k \in 1..MaxOf(Len(a), Len(b)) |-> Limb(a, k) + Limb(b, k)], 1, 0, n)
UAdd(a, b) == UNorm(UAddN(a, b, MaxOf(Len(a), Len(b)) + 1))
\* (a - b) mod 256^n
USubN(a, b, n) ==
    UCarry([k \in 1..MaxOf(Len(a), Len(b)) |-> Limb(a, k) - Limb(b, k)], 1, 0, n)

\* a * m for 0 <= m < 2^22
UMulSmall(a, m) == UNorm(UCarry([k \in 1..Len(a) |-> a[k] * m], 1, 0, Len(a) + 3))

RECURSIVE UColumn(_, _, _, _)
UColumn(a, b, k, i) ==
    IF i > Len(a) \/ i > k THEN 0
    ELSE a[i] * Limb(b, k + 1 - i) + UColumn(a, b, k, i + 1)
UMul(a, b) ==
    IF a = <<>> \/ b = <<>> THEN <<>>
    ELSE UNorm(UCarry([k \in 1..(Len(a) + Len(b) - 1) |-> UColumn(a, b, k, 1)],
                      1, 0, Len(a) + Len(b)))

\* long division of a by 0 < d < 2^22, most significant limb first
RECURSIVE UDivRem(_, _, _, _)
UDivRem(a, d, k, r) ==
    IF k = 0 THEN [q |-> <<>>, r |-> r]
    ELSE LET t == r * 256 + a[k]
             lo == UDivRem(a, d, k - 1, t % d)
         IN  [q |-> Append(lo.q, t \div d), r |-> lo.r]
UDivSmall(a, d) == UNorm(UDivRem(a, d, Len(a), 0).q)
UModSmall(a, d) == UDivRem(a, d, Len(a), 0).r

UIsZero(a) == \A k \in 1..Len(a) : a[k] = 0
UEq(a, b) == \A k \in 1..MaxOf(Len(a), Len(b)) : Limb(a, k) = Limb(b, k)
ULess(a, b) ==
    \E k \in 1..MaxOf(Len(a), Len(b)) :
        /\ Limb(a, k) < Limb(b, k)
        /\ \A j \in (k + 1)..MaxOf(Len(a), Len(b)) : Limb(a, j) = Limb(b, j)
ULeq(a, b) == ~ULess(b, a)

\* a >> s and a << s
UShr(a, s) ==
    LET q == s \div 8
        r == s % 8
    IN  UNorm([k \in 1..MaxOf(Len(a) - q, 0) |->
                 (Limb(a, k + q) \div (2 ^ r)) + (Limb(a, k + q + 1) % (2 ^ r)) * (2 ^ (8 - r))])
UShl(a, s) ==
    LET q == s \div 8
        r == s % 8
    IN  UNorm([k \in 1..(Len(a) + q + 1) |->
                 ((Limb(a, k - q) * (2 ^ r)) % 256) + (Limb(a, k - q - 1) \div (2 ^ (8 - r)))])
UBit(a, n) == (Limb(a, (n \div 8) + 1) \div (2 ^ (n % 8))) % 2

\* d2 * 10^18 + d1 * 10^9 + d0, each part below 10^9: how a 20-digit literal is written
Billion == UFromInt(1000000000)
DecColumn(d2, d1, d0, k) ==
    Limb(d0, k) + UColumn(d1, Billion, k, 1) + UColumn(d2, UMul(Billion, Billion), k, 1)
UDec(d2, d1, d0) ==
    UNorm(UCarry([k \in 1..12 |-> DecColumn(UFromInt(d2), UFromInt(d1), UFromInt(d0), k)],
                 1, 0, 12))

-----------------------------------------------------------------------------
(* Characters.                                                             *)

\* the printable ASCII characters in code order, starting at code 32
Printable == <<
    " ", "!", "dquote", "#", "$", "%", "&", "'", "(", ")", "*", "+", ",", "-", ".", "/",
    "0", "1", "2", "3", "4", "5", "6", "7", "8", "9", ":", ";", "<", "=", ">", "?",
    "@", "A", "B", "C", "D", "E", "F", "G", "H", "I", "J", "K", "L", "M", "N", "O",
    "P", "Q", "R", "S", "T", "U", "V", "W", "X", "Y", "Z", "[", "bslash", "]", "^", "_",
    "bquote", "a", "b", "c", "d", "e", "f", "g", "h", "i", "j", "k", "l", "m", "n", "o",
    "p", "q", "r", "s", "t", "u", "v", "w", "x", "y", "z", "{", "|", "}", "~">>
Ord == [c \in {Printable[k] : k \in 1..Len(Printable)} |->
          31 + (CHOOSE k \in 1..Len(Printable) : Printable[k] = c)]
Ch(c) == Ord[c]
\* a C string literal, without its terminator
Str(t) == [k \in 1..Len(t) |-> Ord[t[k]]]
\* s[k] for a 0-based index into a null-terminated string
At(s, k) == IF k >= 0 /\ k < Len(s) THEN s[k + 1] ELSE 0
IsDigit19(c) == c >= 49 /\ c <= 57

-----------------------------------------------------------------------------
(* Flag words are kept as the set of bit positions that are set.           *)

FFLAG_ALT == {0}
FFLAG_ZERO_PAD == {1}
FFLAG_LEFT_ADJ == {2}
FFLAG_NOPSIGN == {3}
FFLAG_ADDSIGN == {4}
LFLAG_HALF == {5}
LFLAG_HALF_HALF == {6}
LFLAG_LONG == {7}
LFLAG_LONG_LONG == {8}
LFLAG_INTMAX == {9}
LFLAG_SIZET == {10}
LFLAG_PTRDIFF == {11}
LFLAG_MASK == 5..11
TFLAG_INT == {12}
TFLAG_DOUBLE == {13}
TFLAG_CHAR == {14}
TFLAG_STRING == {15}
TFLAG_PTR == {16}
TFLAG_CTR == {17}
TFLAG_MASK == 12..17
SFLAG_HAS_WIDTH == {18}
SFLAG_HAS_PREC == {19}
SFLAG_UPPERCASE == {20}
SFLAG_IS_SIGNED == {21}
SFLAG_IS_FFORM == {22}
SFLAG_IS_EFORM == {23}
SFLAG_IS_GFORM == {22, 23}
SFLAG_IS_AFORM == {24}
SFLAG_IS_FAST == {25}
TRFLAG_REVERSE_PREFIX == {26}
TRFLAG_REVERSE_NUM == {27}
TRFLAG_REVERSE_SUFFIX == {28}

\* (flags & F) != 0
Has(flags, F) == (flags \cap F) # {}

RADIX_BIN == 2
RADIX_OCT == 8
RADIX_DEC == 10
RADIX_HEX == 16

EINVAL == 22
ENOTSUP == 95
INT_MAX == 2147483647
YALC_DEFAULT_STR_PREC == 4095
INTBUFF_LEN == 64

\* yalc_clear_fi
yalc_clear_fi ==
    [flags |-> {}, width |-> 0, precision |-> 0, int_bitlen |-> 0,
     num_pad |-> 0, suffix_pad |-> 0, radix |-> RADIX_DEC]

\* yalc_clear_fld
yalc_clear_fld ==
    [inbuff |-> <<>>, inbuff_len |-> 0, prefix |-> <<>>, prefix_len |-> 0,
     suffix |-> <<>>, suffix_len |-> 0, sign_char |-> 0]

-----------------------------------------------------------------------------
(* Variadic arguments.  An integer argument is a 64-bit register image     *)
(* (8 limbs); a string argument is its characters, or the null pointer.    *)

NULL == <<0 - 1>>
\* The argument list holds one queue per argument type: the caller passes the
\* types the format asks for, so each va_arg takes the next value of its type.
VaList(ints, strs, dbls) == [ints |-> ints, strs |-> strs, dbls |-> dbls]

\* the twos-complement value of the low 32 bits: what va_arg(*va, int) reads
S32(a) ==
    LET lo31 == Limb(a, 1) + 256 * Limb(a, 2) + 65536 * Limb(a, 3)
                + 16777216 * (Limb(a, 4) % 128)
    IN  IF Limb(a, 4) >= 128 THEN (lo31 - INT_MAX) - 1 ELSE lo31

\* 64-bit register image of a small integer, sign-extended
I64(n) == IF n >= 0 THEN UFix(UFromInt(n), 8)
          ELSE USubN(<<>>, UFromInt(0 - n), 8)

\* the 32-bit image of an int
IntImage(x) ==
    IF x >= 0 THEN UFix(UFromInt(x), 4)
    ELSE USubN(<<>>, UAddN(UFromInt(0 - (x + 1)), <<1>>, 5), 4)

\* signed 32-bit result of x * 10 + d; ub marks signed overflow, which leaves
\* the low 32 bits of the product on this target
Mul10Add(x, d) ==
    LET over == \/ x > (INT_MAX \div 10) \/ (x = (INT_MAX \div 10) /\ d > 7)
                \/ x < (0 - (INT_MAX \div 10)) - 1
                \/ (x = (0 - (INT_MAX \div 10)) - 1 /\ d < 2)
    IN  [v  |-> IF over
                THEN S32(UAddN(UMulSmall(IntImage(x), 10), UFromInt(d), 8))
                ELSE x * 10 + d,
         ub |-> over]

-----------------------------------------------------------------------------
(* Conversion-specifier parser: yalc_pf_parse_format.                      *)
(* fmt starts at the '%'; st.i is the loop index, st.ret stays 0 while     *)
(* scanning and takes the negative status on failure, st.stop is set when  *)
(* a conversion letter breaks out of the loop.                             *)

ParseInit(va) ==
    [fi |-> yalc_clear_fi, width_from_arg |-> FALSE, prec_from_arg |-> FALSE,
     has_bitlen |-> FALSE, i |-> 1, va |-> va, ret |-> 0, stop |-> FALSE, ub |-> FALSE]

\* fi->flags |= F, then break out of the switch
ParseType(st, F) == [st EXCEPT !.fi.flags = @ \cup F, !.stop = TRUE]
ParseRadix(st, F, r) == [st EXCEPT !.fi.flags = @ \cup F, !.fi.radix = r, !.stop = TRUE]
ParseFail(st, e) == [st EXCEPT !.ret = 0 - e]

\* va_arg(*va, int): reading past the last argument is undefined
VaArgInt(va) == IF va.ints # <<>> THEN S32(va.ints[1]) ELSE 0
VaArgUB(va) == va.ints = <<>>
VaNext(va) == IF va.ints = <<>> THEN va ELSE [va EXCEPT !.ints = Tail(@)]

ParseChar(fmt, st) ==
    LET c == At(fmt, st.i)
        f == st.fi.flags
    IN
    CASE c = Ch("#") -> [st EXCEPT !.fi.flags = @ \cup FFLAG_ALT]
      [] c = Ch("0") ->
            IF Has(f, SFLAG_HAS_PREC) /\ ~st.prec_from_arg
            THEN LET m == Mul10Add(st.fi.precision, 0)
                 IN  [st EXCEPT !.fi.precision = m.v, !.ub = @ \/ m.ub]
            ELSE IF Has(f, SFLAG_HAS_WIDTH) /\ ~st.width_from_arg
            THEN LET m == Mul10Add(st.fi.width, 0)
                 IN  [st EXCEPT !.fi.width = m.v, !.ub = @ \/ m.ub]
            ELSE IF ~Has(f, FFLAG_ZERO_PAD)
            THEN [st EXCEPT !.fi.flags = @ \cup FFLAG_ZERO_PAD]
            ELSE ParseFail(st, EINVAL)
      [] c = Ch("-") -> [st EXCEPT !.fi.flags = @ \cup FFLAG_LEFT_ADJ]
      [] c = Ch(" ") -> [st EXCEPT !.fi.flags = @ \cup FFLAG_NOPSIGN]
      [] c = Ch("+") -> [st EXCEPT !.fi.flags = @ \cup FFLAG_ADDSIGN]
      [] c = Ch("'") -> st
      [] IsDigit19(c) ->
            IF st.has_bitlen
            THEN LET b == st.fi.int_bitlen * 10 + (c - Ch("0"))
                 IN  IF b > 8 * 8 THEN ParseFail([st EXCEPT !.fi.int_bitlen = b], EINVAL)
                     ELSE [st EXCEPT !.fi.int_bitlen = b]
            ELSE IF ~Has(f, SFLAG_HAS_PREC)
            THEN IF st.width_from_arg \/ st.prec_from_arg THEN ParseFail(st, EINVAL)
                 ELSE IF st.fi.width > (INT_MAX \div 10)
                 THEN ParseFail([st EXCEPT !.fi.flags = @ \cup SFLAG_HAS_WIDTH], EINVAL)
                 ELSE LET m == Mul10Add(st.fi.width, c - Ch("0"))
                      IN  [st EXCEPT !.fi.flags = @ \cup SFLAG_HAS_WIDTH,
                                     !.fi.width = m.v, !.ub = @ \/ m.ub]
            ELSE IF st.prec_from_arg THEN ParseFail(st, EINVAL)
                 ELSE IF st.fi.precision > (INT_MAX \div 10) THEN ParseFail(st, EINVAL)
                 ELSE LET m == Mul10Add(st.fi.precision, c - Ch("0"))
                      IN  [st EXCEPT !.fi.precision = m.v, !.ub = @ \/ m.ub]
      [] c = Ch(".") ->
            IF ~Has(f, SFLAG_HAS_PREC) THEN [st EXCEPT !.fi.flags = @ \cup SFLAG_HAS_PREC]
            ELSE ParseFail(st, EINVAL)
      [] c = Ch("*") ->
            IF st.width_from_arg /\ st.prec_from_arg THEN ParseFail(st, EINVAL)
            ELSE IF ~Has(f, SFLAG_HAS_PREC)
            THEN LET width_arg == VaArgInt(st.va)
                     neg == width_arg < 0
                     \* -INT_MIN overflows and leaves INT_MIN on this target
                     over == width_arg < 0 - INT_MAX
                 IN  [st EXCEPT
                        !.fi.flags = (@ \cup SFLAG_HAS_WIDTH)
                                     \cup (IF neg THEN FFLAG_LEFT_ADJ ELSE {}),
                        !.fi.width = IF neg /\ ~over THEN 0 - width_arg ELSE width_arg,
                        !.width_from_arg = TRUE,
                        !.va = VaNext(st.va),
                        !.ub = @ \/ over \/ VaArgUB(st.va)]
            ELSE LET prec_arg == VaArgInt(st.va)
                 IN  IF prec_arg < 0
                     THEN [st EXCEPT !.fi.flags = @ \ SFLAG_HAS_PREC,
                                     !.va = VaNext(st.va),
                                     !.ub = @ \/ VaArgUB(st.va)]
                     ELSE [st EXCEPT !.fi.flags = @ \cup SFLAG_HAS_PREC,
                                     !.fi.precision = prec_arg,
                                     !.prec_from_arg = TRUE,
                                     !.va = VaNext(st.va),
                                     !.ub = @ \/ VaArgUB(st.va)]
      [] c = Ch("$") -> ParseFail(st, ENOTSUP)
      [] c = Ch("h") ->
            IF Has(f, LFLAG_HALF) THEN [st EXCEPT !.fi.flags = @ \cup LFLAG_HALF_HALF]
            ELSE IF Has(f, LFLAG_HALF_HALF) THEN ParseFail(st, EINVAL)
            ELSE [st EXCEPT !.fi.flags = @ \cup LFLAG_HALF]
      [] c = Ch("l") ->
            IF Has(f, LFLAG_LONG) THEN [st EXCEPT !.fi.flags = @ \cup LFLAG_LONG_LONG]
            ELSE IF Has(f, LFLAG_LONG_LONG) THEN ParseFail(st, EINVAL)
            ELSE [st EXCEPT !.fi.flags = @ \cup LFLAG_LONG]
      [] c = Ch("L") ->
            IF Has(f, LFLAG_MASK) THEN ParseFail(st, EINVAL)
            ELSE [st EXCEPT !.fi.flags = @ \cup LFLAG_LONG]
      [] c = Ch("j") ->
            IF Has(f, LFLAG_MASK) THEN ParseFail(st, EINVAL)
            ELSE [st EXCEPT !.fi.flags = @ \cup LFLAG_INTMAX]
      [] c = Ch("z") ->
            IF Has(f, LFLAG_MASK) THEN ParseFail(st, EINVAL)
            ELSE [st EXCEPT !.fi.flags = @ \cup LFLAG_SIZET]
      [] c = Ch("t") ->
            IF Has(f, LFLAG_MASK) THEN ParseFail(st, EINVAL)
            ELSE [st EXCEPT !.fi.flags = @ \cup LFLAG_PTRDIFF]
      [] c = Ch("w") ->
            IF st.has_bitlen \/ Has(f, LFLAG_MASK) THEN ParseFail(st, EINVAL)
            ELSE IF At(fmt, st.i + 1) = Ch("f")
            THEN [st EXCEPT !.has_bitlen = TRUE, !.fi.flags = @ \cup SFLAG_IS_FAST,
                            !.i = @ + 1]
            ELSE [st EXCEPT !.has_bitlen = TRUE]
      [] c = Ch("c") ->
            IF Has(f, LFLAG_LONG) THEN ParseFail(st, ENOTSUP) ELSE ParseType(st, TFLAG_CHAR)
      [] c = Ch("s") ->
            IF Has(f, LFLAG_LONG) THEN ParseFail(st, ENOTSUP) ELSE ParseType(st, TFLAG_STRING)
      [] c = Ch("i") \/ c = Ch("d") -> ParseType(st, SFLAG_IS_SIGNED \cup TFLAG_INT)
      [] c = Ch("u") -> ParseType(st, TFLAG_INT)
      [] c = Ch("X") -> ParseRadix(st, SFLAG_UPPERCASE \cup TFLAG_INT, RADIX_HEX)
      [] c = Ch("x") -> ParseRadix(st, TFLAG_INT, RADIX_HEX)
      [] c = Ch("B") -> ParseRadix(st, SFLAG_UPPERCASE \cup TFLAG_INT, RADIX_BIN)
      [] c = Ch("b") -> ParseRadix(st, TFLAG_INT, RADIX_BIN)
      [] c = Ch("p") -> ParseRadix(st, (FFLAG_ALT \cup LFLAG_LONG) \cup TFLAG_INT, RADIX_HEX)
      [] c = Ch("o") -> ParseRadix(st, TFLAG_INT, RADIX_OCT)
      [] c = Ch("E") -> ParseType(st, (SFLAG_UPPERCASE \cup SFLAG_IS_EFORM) \cup TFLAG_DOUBLE)
      [] c = Ch("e") -> ParseType(st, SFLAG_IS_EFORM \cup TFLAG_DOUBLE)
      [] c = Ch("F") -> ParseType(st, SFLAG_UPPERCASE \cup TFLAG_DOUBLE)
      [] c = Ch("f") -> ParseType(st, TFLAG_DOUBLE)
      [] c = Ch("G") -> ParseType(st, (SFLAG_UPPERCASE \cup SFLAG_IS_GFORM) \cup TFLAG_DOUBLE)
      [] c = Ch("g") -> ParseType(st, SFLAG_IS_GFORM \cup TFLAG_DOUBLE)
      [] c = Ch("A") ->
            ParseRadix(st, (SFLAG_UPPERCASE \cup SFLAG_IS_AFORM) \cup TFLAG_DOUBLE, RADIX_HEX)
      [] c = Ch("a") -> ParseRadix(st, SFLAG_IS_AFORM \cup TFLAG_DOUBLE, RADIX_HEX)
      [] c = Ch("n") \/ c = Ch("m") -> ParseFail(st, ENOTSUP)
      [] OTHER -> st

RECURSIVE ParseLoop(_, _, _)
ParseLoop(fmt, fmt_len, st) ==
    IF st.i >= fmt_len THEN st
    ELSE LET st1 == ParseChar(fmt, st)
         IN  IF st1.ret < 0 \/ st1.stop THEN st1
             ELSE ParseLoop(fmt, fmt_len, [st1 EXCEPT !.i = @ + 1])

\* a finish that leaves the zero-pad flag as the loop set it
ParseFinishKeepsZero(st) ==
    LET f == st.fi.flags
    IN  IF Cardinality(f \cap TFLAG_MASK) > 1 THEN ParseFail(st, EINVAL)
        ELSE IF Has(f, LFLAG_HALF) /\ Has(f, LFLAG_LONG) THEN ParseFail(st, EINVAL)
        ELSE [st EXCEPT !.ret = st.i]

\* the checks that follow the loop
ParseFinish(st) ==
    LET f == st.fi.flags
        type == f \cap TFLAG_MASK
        f1 == IF Has(f, TFLAG_INT) /\ Has(f, FFLAG_ZERO_PAD) /\ Has(f, SFLAG_HAS_PREC)
              THEN f \ FFLAG_ZERO_PAD ELSE f
        f2 == IF Has(f1, FFLAG_ZERO_PAD) /\ Has(f1, FFLAG_LEFT_ADJ)
              THEN f1 \ FFLAG_ZERO_PAD ELSE f1
    IN  IF Cardinality(type) > 1 THEN ParseFail(st, EINVAL)
        ELSE IF Has(f, LFLAG_HALF) /\ Has(f, LFLAG_LONG) THEN ParseFail(st, EINVAL)
        ELSE [st EXCEPT !.fi.flags = f2, !.ret = st.i]

\* result: ret (bytes consumed, or the negative status), fi, va
yalc_pf_parse_format(fmt, fmt_len, va) ==
    LET st == ParseLoop(fmt, fmt_len, ParseInit(va))
    IN  IF st.ret < 0 THEN st ELSE ParseFinish(st)

-----------------------------------------------------------------------------
(* Output handling.  A renderer yields the characters it hands, in order,  *)
(* to yalc_pf_char_out.                                                    *)

SIZE_MAX == [k \in 1..8 |-> 255]
SizeT(n) == UFix(UFromInt(n), 8)

\* yalc_pf_chars_out
yalc_pf_chars_out(in, in_len, reverse) ==
    IF reverse THEN [k \in 1..in_len |-> in[in_len + 1 - k]]
    ELSE [k \in 1..in_len |-> in[k]]

\* A pad count is an int handed to a size_t parameter: a negative count
\* becomes a run of about 2^64 characters, and a wrapped width one of about
\* 2^31; of such a run LongRun characters are kept.
LongRun == 64
\* yalc_pf_pad
yalc_pf_pad(pad_len, pad) ==
    [k \in 1..(IF pad_len < 0 \/ pad_len > INT_MAX \div 2 THEN LongRun ELSE pad_len) |-> pad]

\* a pad count that forgets to take the field off the width
WidthPadWholeWidth(width, field_width) ==
    IF width < 0 \/ width > field_width THEN width ELSE 0

\* if (fi->width > field_width) width_pad = fi->width - field_width;
\* the comparison is made in size_t, where a negative width is huge
\* and the difference is cut to the 32 bits of width_pad
WidthPad(width, field_width) ==
    IF width < 0 /\ (width + INT_MAX) + 1 < field_width
    THEN INT_MAX - ((field_width - ((width + INT_MAX) + 1)) - 1)
    ELSE IF width < 0 \/ width > field_width THEN width - field_width ELSE 0

\* yalc_pf_field_out
yalc_pf_field_out(fld, fi) ==
    LET prebuf_pad == IF fi.num_pad < 0 THEN 0 - fi.num_pad ELSE 0
        postbuf_pad == IF fi.num_pad > 0 THEN fi.num_pad ELSE 0
        field_width == fld.prefix_len + prebuf_pad + fld.inbuff_len + postbuf_pad
                       + fld.suffix_len + fi.suffix_pad
                       + (IF fld.sign_char # 0 THEN 1 ELSE 0)
        width_pad == WidthPad(fi.width, field_width)
        pad_flags == (IF Has(fi.flags, FFLAG_ZERO_PAD) THEN 1 ELSE 0)
                     + (IF Has(fi.flags, FFLAG_LEFT_ADJ) THEN 2 ELSE 0)
        prefix == yalc_pf_chars_out(fld.prefix, fld.prefix_len,
                                    Has(fi.flags, TRFLAG_REVERSE_PREFIX))
        num == yalc_pf_chars_out(fld.inbuff, fld.inbuff_len,
                                 Has(fi.flags, TRFLAG_REVERSE_NUM))
        suffix == yalc_pf_chars_out(fld.suffix, fld.suffix_len,
                                    Has(fi.flags, TRFLAG_REVERSE_SUFFIX))
        tail == num \o yalc_pf_pad(postbuf_pad, Ch("0")) \o suffix
                \o yalc_pf_pad(fi.suffix_pad, Ch("0"))
    IN  CASE pad_flags = 0 ->
               yalc_pf_pad(width_pad, Ch(" ")) \o prefix
               \o yalc_pf_pad(prebuf_pad, Ch("0")) \o tail
          [] pad_flags = 1 ->
               IF Has(fi.flags, TFLAG_DOUBLE)
               THEN (IF fld.sign_char # 0 THEN <<fld.sign_char>> ELSE <<>>)
                    \o yalc_pf_pad(width_pad, Ch("0")) \o prefix \o tail
               ELSE prefix \o yalc_pf_pad(width_pad, Ch("0")) \o tail
          [] OTHER ->
               prefix \o yalc_pf_pad(prebuf_pad, Ch("0")) \o tail
               \o yalc_pf_pad(width_pad, Ch(" "))

-----------------------------------------------------------------------------
(* Integer to string.                                                      *)

\* hexadecimal letters counted from hex_base without taking off the ten
DigitCharNoOffset(digit, radix, hex_base) ==
    IF radix = RADIX_HEX /\ digit >= 10 THEN hex_base + digit
    ELSE Ch("0") + digit

\* the character of one digit: dec_base + digit, or hex_base + digit - 10
DigitChar(digit, radix, hex_base) ==
    IF radix = RADIX_HEX /\ digit >= 10 THEN hex_base + digit - 10
    ELSE Ch("0") + digit

\* the do { } while (val) loop: least significant digit first
RECURSIVE ItoraDigits(_, _, _)
ItoraDigits(val, radix, hex_base) ==
    LET digit == UModSmall(val, radix)
        rest == UDivSmall(val, radix)
    IN  <<DigitChar(digit, radix, hex_base)>>
        \o (IF UIsZero(rest) THEN <<>> ELSE ItoraDigits(rest, radix, hex_base))

\* yalc_itora: the buffer, the digit count and the updated flags
yalc_itora(val, fi) ==
    LET hex_base == IF Has(fi.flags, SFLAG_UPPERCASE) THEN Ch("A") ELSE Ch("a")
        num_buff == IF fi.radix \in {RADIX_DEC, RADIX_HEX, RADIX_OCT, RADIX_BIN}
                    THEN ItoraDigits(val, fi.radix, hex_base) ELSE <<>>
    IN  [num_buff |-> num_buff, len |-> Len(num_buff),
         flags |-> fi.flags \cup TRFLAG_REVERSE_NUM]

\* (intmax_t) val < 0
IsNegative64(val) == Limb(val, 8) >= 128
\* (uintmax_t)(-(sval + 1)) + 1
Negate64(val) == UAddN(USubN(<<>>, UAddN(val, <<1>>, 8), 8), <<1>>, 8)

\* the sign or base prefix computed at the top of yalc_putll
PutllPrefix(val, fi) ==
    LET up == Has(fi.flags, SFLAG_UPPERCASE)
    IN  CASE fi.radix = RADIX_DEC ->
               IF Has(fi.flags, SFLAG_IS_SIGNED)
               THEN IF IsNegative64(val) THEN <<Ch("-")>>
                    ELSE IF Has(fi.flags, FFLAG_ADDSIGN) THEN <<Ch("+")>>
                    ELSE IF Has(fi.flags, FFLAG_NOPSIGN) THEN <<Ch(" ")>>
                    ELSE <<>>
               ELSE <<>>
          [] fi.radix = RADIX_HEX ->
               IF Has(fi.flags, FFLAG_ALT) /\ ~UIsZero(val)
               THEN <<Ch("0"), IF up THEN Ch("X") ELSE Ch("x")>> ELSE <<>>
          [] fi.radix = RADIX_BIN ->
               IF Has(fi.flags, FFLAG_ALT) /\ ~UIsZero(val)
               THEN <<Ch("0"), IF up THEN Ch("B") ELSE Ch("b")>> ELSE <<>>
          [] OTHER -> <<>>

\* a renderer that takes the digits from the unsigned image
PutllMagnitudeImage(val, fi) == val

\* the magnitude yalc_putll hands to yalc_itora
PutllMagnitude(val, fi) ==
    IF fi.radix = RADIX_DEC /\ Has(fi.flags, SFLAG_IS_SIGNED) /\ IsNegative64(val)
    THEN Negate64(val) ELSE val

\* octal alternate form: force a leading zero through the precision
PutllOctal(fi, it, val) ==
    IF fi.radix = RADIX_OCT /\ Has(fi.flags, FFLAG_ALT)
    THEN IF it.num_buff[it.len] # Ch("0") /\ fi.precision <= it.len
         THEN [fi EXCEPT !.flags = @ \cup SFLAG_HAS_PREC, !.precision = it.len + 1]
         ELSE IF fi.precision = 0 /\ UIsZero(val)
         THEN [fi EXCEPT !.precision = 1]
         ELSE fi
    ELSE fi

\* a precision that adds no zeroes
PutllPrecisionIgnored(fi, len) == fi

\* precision: zeroes in front of the digits, or no digits at all for 0
PutllPrecision(fi, len) ==
    IF Has(fi.flags, SFLAG_HAS_PREC) /\ fi.precision > len
    THEN [fi EXCEPT !.num_pad = 0 - (fi.precision - len)] ELSE fi
PutllLen(fi, len, val) ==
    IF Has(fi.flags, SFLAG_HAS_PREC) /\ ~(fi.precision > len)
       /\ fi.precision = 0 /\ UIsZero(val)
    THEN 0 ELSE len

PutllFill(prefix, val, it, fi) ==
    [fld |-> [inbuff |-> it.num_buff,
              inbuff_len |-> PutllLen(fi, it.len, val),
              prefix |-> prefix, prefix_len |-> Len(prefix),
              suffix |-> <<>>, suffix_len |-> 0, sign_char |-> 0],
     fi |-> PutllPrecision(fi, it.len)]

PutllRender(prefix, val, it, fi) ==
    PutllFill(prefix, val, it, PutllOctal([fi EXCEPT !.flags = it.flags], it, val))

PutllDigits(prefix, val, fi) == PutllRender(prefix, val, yalc_itora(val, fi), fi)

\* the field data and descriptor yalc_putll hands to yalc_pf_field_out
PutllField(val, fi) == PutllDigits(PutllPrefix(val, fi), PutllMagnitude(val, fi), fi)

FieldOut(r) == yalc_pf_field_out(r.fld, r.fi)

\* yalc_putll
yalc_putll(val, fi) == FieldOut(PutllField(val, fi))

-----------------------------------------------------------------------------
(* Ryu: yalc_double_to_decimal.  uint64_t values are 8-limb images,        *)
(* uint128_t values 16-limb images, uint32_t values 4-limb images;         *)
(* int32_t values that stay small are integers.  A step whose behaviour    *)
(* the C standard leaves undefined (a table index past the end, a shift    *)
(* count outside the operand's width) yields Undefined.                    *)

EXPONENT_BIAS == 1023
SIGNIFICAND_BITS == 52
POW5_INV_BITCOUNT == 125
POW5_BITCOUNT == 125
POW5_TABLE_SIZE == 26

\* (uint32_t) n of an int32_t n
U32(n) == UFix(I64(n), 4)
\* the literal 0xHHHHLLLL, given as its two 16-bit halves
U32Hex(hi, lo) == <<lo % 256, lo \div 256, hi % 256, hi \div 256>>
\* a & ((1 << p) - 1) for 0 <= p <= 63
ULowBits(a, p) == USubN(a, UShl(UShr(a, p), p), 8)

\* max(a, b) on uint32_t
max(a, b) == IF ULess(b, a) THEN a ELSE b

\* (((uint32_t) p) * 78913) >> 18; the result is below 2^14
Log10ofPow2(p) == UToInt(UShr(UFix(UMulSmall(U32(p), 78913), 4), 18))
\* (((uint32_t) p) * 732923) >> 20
Log10ofPow5(p) == UToInt(UShr(UFix(UMulSmall(U32(p), 732923), 4), 20))
\* (int32_t) ((((uint32_t) p) * 1217359) >> 19)
Log2ofPow5(p) == UToInt(UShr(UFix(UMulSmall(U32(p), 1217359), 4), 19))
CeilLog2ofPow5(p) == Log2ofPow5(p) + 1

DivisibleByPow2(val, p) == UIsZero(ULowBits(val, p))

m_inv_5 == UDec(14, 757395258, 967641293)
max_div_5 == UDec(3, 689348814, 741910323)
\* the loop of DivisibleByPow5: count when val * m_inv_5 first exceeds max_div_5
RECURSIVE Pow5Count(_, _)
Pow5Count(val, count) ==
    IF ULess(max_div_5, UFix(UMul(val, m_inv_5), 8)) THEN count
    ELSE Pow5Count(UFix(UMul(val, m_inv_5), 8), count + 1)
\* p is a uint32_t image
DivisibleByPow5(val, p) == ULeq(p, UFromInt(Pow5Count(val, 0)))

\* j - 64 is the count of a shift of a uint128_t
MulShiftUndefined(j) == j - 64 < 0 \/ j - 64 >= 128
MulShift64(a, b, j) ==
    UFix(UShr(UAddN(UShr(UFix(UMul(a, b[1]), 16), 64),
                    UFix(UMul(a, b[2]), 16), 16),
              j - 64), 8)

\* POW5_TABLE[k] = 5^k, as the decimal literals of the source
POW5_TABLE ==
    << UDec(0, 0, 1),
       UDec(0, 0, 5),
       UDec(0, 0, 25),
       UDec(0, 0, 125),
       UDec(0, 0, 625),
       UDec(0, 0, 3125),
       UDec(0, 0, 15625),
       UDec(0, 0, 78125),
       UDec(0, 0, 390625),
       UDec(0, 0, 1953125),
       UDec(0, 0, 9765625),
       UDec(0, 0, 48828125),
       UDec(0, 0, 244140625),
       UDec(0, 1, 220703125),
       UDec(0, 6, 103515625),
       UDec(0, 30, 517578125),
       UDec(0, 152, 587890625),
       UDec(0, 762, 939453125),
       UDec(0, 3814, 697265625),
       UDec(0, 19073, 486328125),
       UDec(0, 95367, 431640625),
       UDec(0, 476837, 158203125),
       UDec(0, 2384185, 791015625),
       UDec(0, 11920928, 955078125),
       UDec(0, 59604644, 775390625),
       UDec(0, 298023223, 876953125) >>

POW5_SPLIT2 ==
    << << UDec(0, 0, 0), UDec(1, 152921504, 606846976) >>,
       << UDec(0, 0, 0), UDec(1, 490116119, 384765625) >>,
       << UDec(1, 32610780, 636961552), UDec(1, 925929944, 387235853) >>,
       << UDec(7, 910200175, 544436838), UDec(1, 244603055, 572228341) >>,
       << UDec(16, 941905809, 32713930), UDec(1, 608611746, 708759036) >>,
       << UDec(13, 24893955, 298202172), UDec(2, 79081953, 128979843) >>,
       << UDec(6, 607496772, 837067824), UDec(1, 343575221, 513417750) >>,
       << UDec(17, 332926989, 895652603), UDec(1, 736530273, 35216783) >>,
       << UDec(13, 37379183, 483547984), UDec(2, 244412773, 384604712) >>,
       << UDec(1, 605989338, 741628675), UDec(1, 450417759, 929778918) >>,
       << UDec(9, 630225068, 416591280), UDec(1, 874621017, 369538693) >>,
       << UDec(0, 665883850, 346957067), UDec(1, 211445438, 634777304) >>,
       << UDec(14, 931890668, 723713708), UDec(1, 565756531, 257009982) >> >>

POW5_OFFSETS ==
    << U32Hex(0, 0),
       U32Hex(0, 0),
       U32Hex(0, 0),
       U32Hex(0, 0),
       U32Hex(16384, 0),
       U32Hex(22889, 22933),
       U32Hex(21844, 21845),
       U32Hex(22101, 21781),
       U32Hex(16661, 1284),
       U32Hex(16469, 21520),
       U32Hex(17493, 20805),
       U32Hex(17488, 17728),
       U32Hex(17749, 21840),
       U32Hex(16384, 16384),
       U32Hex(38468, 1088),
       U32Hex(21846, 21861),
       U32Hex(21573, 16453),
       U32Hex(16405, 16721),
       U32Hex(21845, 37205),
       U32Hex(20800, 21845),
       U32Hex(0, 261) >>

POW5_INV_SPLIT2 ==
    << << UDec(0, 0, 1), UDec(2, 305843009, 213693952) >>,
       << UDec(5, 955668970, 331000884), UDec(1, 784059615, 882449851) >>,
       << UDec(8, 982663654, 677661702), UDec(1, 380349269, 358112757) >>,
       << UDec(7, 286864317, 269821294), UDec(2, 135987035, 920910082) >>,
       << UDec(7, 5857020, 398200553), UDec(1, 652639921, 975621497) >>,
       << UDec(17, 965325103, 354776697), UDec(1, 278668206, 209430417) >>,
       << UDec(8, 928596168, 509315048), UDec(1, 978643211, 784836272) >>,
       << UDec(10, 75671573, 58298858), UDec(1, 530901034, 580419511) >>,
       << UDec(0, 597001226, 353042382), UDec(1, 184477304, 306571148) >>,
       << UDec(1, 527430471, 115325346), UDec(1, 832889850, 782397517) >>,
       << UDec(12, 533209867, 169019542), UDec(1, 418129833, 677084982) >>,
       << UDec(5, 577825024, 675947042), UDec(2, 194449627, 517475473) >>,
       << UDec(11, 6974540, 203867551), UDec(1, 697873161, 311732311) >>,
       << UDec(10, 313493231, 639821582), UDec(1, 313665730, 9899186) >>,
       << UDec(12, 701016819, 766672773), UDec(2, 32799256, 770390445) >> >>

POW5_INV_OFFSETS ==
    << U32Hex(21588, 17748),
       U32Hex(1029, 21829),
       U32Hex(4100, 4096),
       U32Hex(64, 1044),
       U32Hex(16385, 0),
       U32Hex(16661, 21845),
       U32Hex(0, 1108),
       U32Hex(1, 68),
       U32Hex(16384, 0),
       U32Hex(17408, 65),
       U32Hex(20549, 17488),
       U32Hex(21845, 84),
       U32Hex(20837, 21844),
       U32Hex(16384, 16384),
       U32Hex(256, 1),
       U32Hex(1, 1280),
       U32Hex(20817, 21521),
       U32Hex(1365, 21844),
       U32Hex(0, 0) >>

Undefined == [ub |-> TRUE]
\* result[0], result[1] of the two table functions
Pow5Result(lo, hi) == [ub |-> FALSE, r |-> <<lo, hi>>]
Pow5Split(shiftedSum) == Pow5Result(UFix(shiftedSum, 8), UFix(UShr(shiftedSum, 64), 8))

\* (table[p / 16] >> ((p % 16) << 1)) & 3
OffsetBits(table, p) == UModSmall(UShr(table[(p \div 16) + 1], (p % 16) * 2), 4)

\* a shift count of a uint128_t that is out of range
BadShift(count) == ~ULess(count, <<128>>)

\* Pow5Inv2k from the shiftedSum on; p and delta are in range, pow5 is
\* POW5_TABLE[offset]
Pow5Inv2kSum(p, mul, pow5, delta) ==
    UAddN(UAddN(UShr(UFix(UMul(pow5, mul[1]), 16), delta),
                UFix(UShl(UFix(UMul(pow5, mul[2]), 16), 64 - delta), 16),
                16),
          UFromInt(OffsetBits(POW5_OFFSETS, p)), 16)
Pow5Inv2kShift(p, mul, offset, delta) ==
    IF \/ ~ULess(offset, UFromInt(POW5_TABLE_SIZE))
       \/ BadShift(delta) \/ BadShift(USubN(<<64>>, delta, 4))
       \/ ~ULess(UDivSmall(p, 16), UFromInt(Len(POW5_OFFSETS)))
    THEN Undefined
    ELSE Pow5Split(Pow5Inv2kSum(UToInt(p), mul, POW5_TABLE[UToInt(offset) + 1],
                                UToInt(delta)))
Pow5Inv2kBase(p, base, base2, split2) ==
    IF ~ULess(base, UFromInt(Len(split2))) THEN Undefined
    ELSE IF UIsZero(USubN(p, base2, 4))
    THEN Pow5Result(split2[UToInt(base) + 1][1], split2[UToInt(base) + 1][2])
    ELSE Pow5Inv2kShift(p, split2[UToInt(base) + 1], USubN(p, base2, 4),
                        U32(CeilLog2ofPow5(S32(p)) - CeilLog2ofPow5(S32(base2))))
\* p is a uint32_t image
Pow5Inv2k(p) ==
    Pow5Inv2kBase(p, UDivSmall(p, POW5_TABLE_SIZE),
                  UFix(UMulSmall(UDivSmall(p, POW5_TABLE_SIZE), POW5_TABLE_SIZE), 4),
                  POW5_SPLIT2)

\* Pow2kInvPow5 from the shiftedSum on; p and delta are in range, pow5 is
\* POW5_TABLE[offset]
Pow2kInvPow5Sum(p, mul, pow5, delta) ==
    UAddN(UAddN(UAddN(UShr(UFix(UMul(pow5, USubN(mul[1], <<1>>, 8)), 16), delta),
                      UFix(UShl(UFix(UMul(pow5, mul[2]), 16), 64 - delta), 16),
                      16),
                <<1>>, 16),
          UFromInt(OffsetBits(POW5_INV_OFFSETS, p)), 16)
Pow2kInvPow5Shift(p, mul, offset, delta) ==
    IF \/ ~ULess(offset, UFromInt(POW5_TABLE_SIZE))
       \/ BadShift(delta) \/ BadShift(USubN(<<64>>, delta, 4))
       \/ ~ULess(UDivSmall(p, 16), UFromInt(Len(POW5_INV_OFFSETS)))
    THEN Undefined
    ELSE Pow5Split(Pow2kInvPow5Sum(UToInt(p), mul, POW5_TABLE[UToInt(offset) + 1],
                                   UToInt(delta)))
Pow2kInvPow5Base(p, base, base2, split2) ==
    IF ~ULess(base, UFromInt(Len(split2))) THEN Undefined
    ELSE IF UIsZero(USubN(base2, p, 4))
    THEN Pow5Result(split2[UToInt(base) + 1][1], split2[UToInt(base) + 1][2])
    ELSE Pow2kInvPow5Shift(p, split2[UToInt(base) + 1], USubN(base2, p, 4),
                           U32(CeilLog2ofPow5(S32(base2)) - CeilLog2ofPow5(S32(p))))
\* p is a uint32_t image
Pow2kInvPow5(p) ==
    Pow2kInvPow5Base(p,
        UDivSmall(UAddN(p, UFromInt(POW5_TABLE_SIZE - 1), 4), POW5_TABLE_SIZE),
        UFix(UMulSmall(UDivSmall(UAddN(p, UFromInt(POW5_TABLE_SIZE - 1), 4),
                                 POW5_TABLE_SIZE), POW5_TABLE_SIZE), 4),
        POW5_INV_SPLIT2)

Decimal(fraction10, exponent10) ==
    [ub |-> FALSE, fraction10 |-> fraction10, exponent10 |-> exponent10]
BoolInt(cond) == IF cond THEN <<1>> ELSE <<>>
Div10(x) == UFix(UDivSmall(x, 10), 8)
Div100(x) == UFix(UDivSmall(x, 100), 8)

\* the integer shortcut: move trailing zeros of fraction10 to the exponent
RECURSIVE StripZeros(_, _)
StripZeros(fraction10, exponent10) ==
    IF UModSmall(fraction10, 10) # 0 THEN Decimal(fraction10, exponent10)
    ELSE StripZeros(Div10(fraction10), exponent10 + 1)

\* Step 4, first loop of the branch taken when Za or Zb holds
RECURSIVE TrailingLoop(_)
TrailingLoop(s) ==
    IF ULeq(Div10(s.c), Div10(s.a)) THEN s
    ELSE TrailingLoop([a |-> Div10(s.a), b |-> Div10(s.b), c |-> Div10(s.c),
                       Za |-> s.Za /\ UModSmall(s.a, 10) = 0,
                       Zb |-> s.Zb /\ s.last_removed_digit = 0,
                       last_removed_digit |-> UModSmall(s.b, 10),
                       removed_digits |-> s.removed_digits + 1])
\* Step 4, the loop taken while a ends in zero
RECURSIVE ZaLoop(_)
ZaLoop(s) ==
    IF UModSmall(s.a, 10) # 0 THEN s
    ELSE ZaLoop([a |-> Div10(s.a), b |-> Div10(s.b), c |-> Div10(s.c),
                 Za |-> s.Za,
                 Zb |-> s.Zb /\ s.last_removed_digit = 0,
                 last_removed_digit |-> UModSmall(s.b, 10),
                 removed_digits |-> s.removed_digits + 1])
\* the digit the rounding decision uses: an exact half above a b whose bit 1
\* is clear counts as 4
RoundingDigit(s) ==
    IF s.Zb /\ s.last_removed_digit = 5 /\ UBit(s.b, 1) = 0 THEN 4
    ELSE s.last_removed_digit
TrailingFinish(s, frac_is_even, exponent10) ==
    Decimal(UAddN(s.b,
                  BoolInt(\/ (UEq(s.b, s.a) /\ (~frac_is_even \/ ~s.Za))
                          \/ RoundingDigit(s) >= 5), 8),
            exponent10 + s.removed_digits)
TrailingPath(s, frac_is_even, exponent10) ==
    TrailingFinish(IF TrailingLoop(s).Za THEN ZaLoop(TrailingLoop(s)) ELSE TrailingLoop(s),
                   frac_is_even, exponent10)

\* Step 4, the common branch: two digits at once, then digit by digit
CommonFirst(s) ==
    IF ULess(Div100(s.a), Div100(s.c))
    THEN [a |-> Div100(s.a), b |-> Div100(s.b), c |-> Div100(s.c),
          round_up |-> UModSmall(s.b, 100) >= 50,
          removed_digits |-> s.removed_digits + 2]
    ELSE [a |-> s.a, b |-> s.b, c |-> s.c, round_up |-> FALSE,
          removed_digits |-> s.removed_digits]
RECURSIVE CommonLoop(_)
CommonLoop(s) ==
    IF ULeq(Div10(s.c), Div10(s.a)) THEN s
    ELSE CommonLoop([a |-> Div10(s.a), b |-> Div10(s.b), c |-> Div10(s.c),
                     round_up |-> UModSmall(s.b, 10) >= 5,
                     removed_digits |-> s.removed_digits + 1])
CommonFinish(s, exponent10) ==
    Decimal(UAddN(s.b, BoolInt(UEq(s.b, s.a) \/ s.round_up), 8),
            exponent10 + s.removed_digits)

\* Step 4
ShortestDecimal(s, frac_is_even, exponent10) ==
    IF s.Za \/ s.Zb THEN TrailingPath(s, frac_is_even, exponent10)
    ELSE CommonFinish(CommonLoop(CommonFirst(s)), exponent10)
Halfway(a, b, c, Za, Zb) ==
    [a |-> a, b |-> b, c |-> c, Za |-> Za, Zb |-> Zb,
     last_removed_digit |-> 0, removed_digits |-> 0]

\* ((uint32_t) v) - 5 * ((uint32_t) (v / 5))
Mod5(v) == USubN(UFix(v, 4), UFix(UMulSmall(UFix(UDivSmall(v, 5), 4), 5), 4), 4)

\* Step 3 for exponent2 >= 0, after the three MulShift64; q is a uint32_t
PositiveZeros(u, v, w, a, b, c, q, frac_is_even) ==
    IF ~ULeq(q, <<22>>) THEN Halfway(a, b, c, FALSE, FALSE)
    ELSE IF UIsZero(Mod5(v)) THEN Halfway(a, b, c, FALSE, DivisibleByPow5(v, q))
    ELSE IF frac_is_even THEN Halfway(a, b, c, DivisibleByPow5(u, q), FALSE)
    ELSE Halfway(a, b,
                 USubN(c, BoolInt(DivisibleByPow5(w, q)), 8), FALSE, FALSE)
PositiveMul(u, v, w, q, i, p2kip5, frac_is_even) ==
    IF p2kip5.ub \/ MulShiftUndefined(i) THEN Undefined
    ELSE ShortestDecimal(PositiveZeros(u, v, w, MulShift64(u, p2kip5.r, i),
                                       MulShift64(v, p2kip5.r, i),
                                       MulShift64(w, p2kip5.r, i), q, frac_is_even),
                         frac_is_even, S32(q))
\* p = (int32_t) q, k = POW5_INV_BITCOUNT + Log2ofPow5(p), i = -exponent2 + (int32_t) q + k
PositiveExponent(u, v, w, exponent2, q, frac_is_even) ==
    PositiveMul(u, v, w, q,
                (0 - exponent2) + S32(q) + (POW5_INV_BITCOUNT + Log2ofPow5(S32(q))),
                Pow2kInvPow5(U32(S32(q))), frac_is_even)

\* Step 3 for exponent2 < 0, after the three MulShift64
NegativeZeros(v, a, b, c, q, frac_is_even, u_not_smallest) ==
    IF ULeq(q, <<1>>)
    THEN IF frac_is_even THEN Halfway(a, b, c, u_not_smallest, TRUE)
         ELSE Halfway(a, b, USubN(c, <<1>>, 8), FALSE, TRUE)
    ELSE IF ULeq(q, <<63>>) THEN Halfway(a, b, c, FALSE, DivisibleByPow2(v, UToInt(q)))
    ELSE Halfway(a, b, c, FALSE, FALSE)
NegativeMul(u, v, w, q, exponent10, i, p5i2k, frac_is_even, u_not_smallest) ==
    IF p5i2k.ub \/ MulShiftUndefined(i) THEN Undefined
    ELSE ShortestDecimal(NegativeZeros(v, MulShift64(u, p5i2k.r, i),
                                       MulShift64(v, p5i2k.r, i),
                                       MulShift64(w, p5i2k.r, i), q, frac_is_even,
                                       u_not_smallest),
                         frac_is_even, exponent10)
\* p = -exponent10, k = CeilLog2ofPow5(p) - POW5_BITCOUNT as uint32_t,
\* i = (int32_t) ((int32_t) q - k)
NegativeP(u, v, w, q, exponent10, frac_is_even, u_not_smallest) ==
    NegativeMul(u, v, w, q, exponent10,
                S32(USubN(U32(S32(q)),
                          U32(CeilLog2ofPow5(0 - exponent10) - POW5_BITCOUNT), 4)),
                Pow5Inv2k(U32(0 - exponent10)), frac_is_even, u_not_smallest)
NegativeExponent(u, v, w, exponent2, q, frac_is_even, u_not_smallest) ==
    NegativeP(u, v, w, q, S32(q) + exponent2, frac_is_even, u_not_smallest)

\* Steps 2 and 3: exponent2 and fraction2 already adjusted by two extra bits
HalfwayPoints(exponent2, fraction2, frac_is_even, u_not_smallest) ==
    IF exponent2 >= 0
    THEN PositiveExponent(USubN(fraction2, IF u_not_smallest THEN <<2>> ELSE <<1>>, 8),
                          fraction2, UAddN(fraction2, <<2>>, 8), exponent2,
                          max(U32(0), USubN(UFromInt(Log10ofPow2(exponent2)), <<1>>, 4)),
                          frac_is_even)
    ELSE NegativeExponent(USubN(fraction2, IF u_not_smallest THEN <<2>> ELSE <<1>>, 8),
                          fraction2, UAddN(fraction2, <<2>>, 8), exponent2,
                          max(U32(0), USubN(UFromInt(Log10ofPow5(0 - exponent2)), <<1>>, 4)),
                          frac_is_even, u_not_smallest)

\* from the integer shortcut on
DecimalFrom(exponent_biased, significand, exponent2, fraction2) ==
    IF /\ exponent2 > 0 /\ exponent2 < SIGNIFICAND_BITS
       /\ UIsZero(ULowBits(fraction2, SIGNIFICAND_BITS - exponent2))
    THEN StripZeros(UFix(UShr(fraction2, SIGNIFICAND_BITS - exponent2), 8), 0)
    ELSE HalfwayPoints(exponent2 - (SIGNIFICAND_BITS + 2),
                       UFix(UMulSmall(fraction2, 4), 8),
                       UBit(fraction2, 0) = 0,
                       ~UIsZero(significand) \/ exponent_biased <= 1)

\* significand is below 2^52, so or-ing in the leading bit adds it
yalc_double_to_decimal(exponent_biased, significand) ==
    DecimalFrom(exponent_biased, significand,
                IF exponent_biased # 0 THEN exponent_biased - EXPONENT_BIAS
                ELSE (0 - EXPONENT_BIAS) + 1,
                IF exponent_biased # 0
                THEN UAddN(significand, UShl(<<1>>, SIGNIFICAND_BITS), 8)
                ELSE UFix(significand, 8))

-----------------------------------------------------------------------------
(* Double to string: yalc_putd.  A double argument is its 64-bit image.    *)

EXPONENT_BITS == 11
EXPONENT_MASK == 2 ^ EXPONENT_BITS - 1

nan_str(is_uppercase) ==
    IF is_uppercase THEN Str(<<"N", "A", "N">>) ELSE Str(<<"n", "a", "n">>)
inf_str(is_uppercase) ==
    IF is_uppercase THEN Str(<<"I", "N", "F">>) ELSE Str(<<"i", "n", "f">>)

\* the three parts of the binary format
PutdSign(in) == Limb(in, 8) >= 128
PutdExponent(in) == ((Limb(in, 8) % 128) * 16) + (Limb(in, 7) \div 16)
PutdSignificand(in) == UFix(ULowBits(in, SIGNIFICAND_BITS), 8)

\* the precision in force: 6 (13 in a-form) when none was given, at most 4096
PutdPrecision(fi) ==
    MinOf(IF Has(fi.flags, SFLAG_HAS_PREC) THEN fi.precision
          ELSE IF Has(fi.flags, SFLAG_IS_AFORM) THEN 13 ELSE 6,
          4096)

PutdSignChar(sign, fi) ==
    IF sign THEN Ch("-")
    ELSE IF Has(fi.flags, FFLAG_ADDSIGN) THEN Ch("+")
    ELSE IF Has(fi.flags, FFLAG_NOPSIGN) THEN Ch(" ")
    ELSE 0

\* without zero padding the sign opens the prefix and sign_char is cleared
PutdSignPrefix(sign_char, fi) ==
    IF ~Has(fi.flags, FFLAG_ZERO_PAD) /\ sign_char # 0 THEN <<sign_char>> ELSE <<>>
PutdSignKept(sign_char, fi) ==
    IF ~Has(fi.flags, FFLAG_ZERO_PAD) THEN 0 ELSE sign_char

\* done: the field handed to yalc_pf_field_out
PutdDone(num, len, prefix, suffix, sign_char, fi) ==
    yalc_pf_field_out([inbuff |-> num, inbuff_len |-> len,
                       prefix |-> prefix, prefix_len |-> Len(prefix),
                       suffix |-> suffix, suffix_len |-> Len(suffix),
                       sign_char |-> sign_char], fi)

\* NaN (with fraction) or infinity (without)
PutdNanInf(significand, prefix, sign_char, fi) ==
    PutdDone(IF ~UIsZero(significand)
             THEN nan_str(Has(fi.flags, SFLAG_UPPERCASE))
             ELSE inf_str(Has(fi.flags, SFLAG_UPPERCASE)),
             3, prefix, <<>>, sign_char, [fi EXCEPT !.precision = 0])

\* zero gets ".", and precision zeroes after it, in a/e/f-form (in g-form
\* only with the alt flag), and only if the precision is not 0
PutdZeroPoint(fi) ==
    /\ ((fi.flags \cap SFLAG_IS_GFORM) # SFLAG_IS_GFORM) \/ Has(fi.flags, FFLAG_ALT)
    /\ fi.precision # 0

PutdZeroPrefix(fi) ==
    (IF Has(fi.flags, SFLAG_IS_AFORM)
     THEN <<Ch("0"), IF Has(fi.flags, SFLAG_UPPERCASE) THEN Ch("X") ELSE Ch("x")>>
     ELSE <<>>)
    \o <<Ch("0")>>
    \o (IF PutdZeroPoint(fi) THEN <<Ch(".")>> ELSE <<>>)

PutdZeroSuffix(fi) ==
    IF (fi.flags \cap SFLAG_IS_GFORM) = SFLAG_IS_EFORM
    THEN <<IF Has(fi.flags, SFLAG_UPPERCASE) THEN Ch("E") ELSE Ch("e"),
           Ch("+"), Ch("0"), Ch("0")>>
    ELSE IF Has(fi.flags, SFLAG_IS_AFORM)
    THEN <<IF Has(fi.flags, SFLAG_UPPERCASE) THEN Ch("P") ELSE Ch("p"),
           Ch("+"), Ch("0")>>
    ELSE <<>>

PutdZero(prefix, sign_char, fi) ==
    PutdDone(<<>>, 0, prefix \o PutdZeroPrefix(fi), PutdZeroSuffix(fi), sign_char,
             [fi EXCEPT !.num_pad = IF PutdZeroPoint(fi) THEN fi.precision ELSE @])

NaText == Str(<<"(", "n", "/", "a", ")">>)

\* yalc_count_digits in decimal: c starts at 10 and is multiplied by 10, in
\* uint64_t, while it does not exceed val
RECURSIVE CountDecimal(_, _, _)
CountDecimal(val, c, len) ==
    IF ULeq(c, val) THEN CountDecimal(val, UFix(UMulSmall(c, 10), 8), len + 1)
    ELSE len
\* yalc_count_digits in hexadecimal: four bits a digit
RECURSIVE CountHex(_, _)
CountHex(val, len) ==
    IF UIsZero(UShr(val, 4)) THEN len ELSE CountHex(UShr(val, 4), len + 1)
yalc_count_digits(val, radix) ==
    IF radix = RADIX_HEX THEN CountHex(val, 1) ELSE CountDecimal(val, <<10>>, 1)

\* POW10(n): 5^n from the table of Ryu, shifted left by n in uint64_t
POW10(n) == UFix(UShl(POW5_TABLE[n + 1], n), 8)

\* value / POW10(n): the divisor is 10^n (n stays below 20, where POW10 would
\* wrap), and the quotient is taken through its factors of at most 10^6
RECURSIVE DivPow10(_, _)
DivPow10(value, n) ==
    IF n <= 6 THEN UFix(UDivSmall(value, 10 ^ n), 8)
    ELSE DivPow10(UDivSmall(value, 10 ^ 6), n - 6)

\* round half to even: quotient, remainder (value - quotient * divisor) and half
RoundHalfEven(quotient, remainder, half) ==
    IF ULess(half, remainder) \/ (UEq(remainder, half) /\ UBit(quotient, 0) = 1)
    THEN UAddN(quotient, <<1>>, 8)
    ELSE quotient

RoundBy(value, quotient, divisor) ==
    RoundHalfEven(quotient, USubN(value, UMul(quotient, divisor), 8),
                  UFix(UShr(divisor, 1), 8))

\* yalc_round_to_digits
yalc_round_to_digits(value, current_digits, desired_digits) ==
    IF desired_digits >= current_digits \/ desired_digits >= 17 THEN value
    ELSE RoundBy(value, DivPow10(value, current_digits - desired_digits),
                 POW10(current_digits - desired_digits))

IsUppercase(fi) == Has(fi.flags, SFLAG_UPPERCASE)
\* the decimal point, when cond asks for it
Point(cond) == IF cond THEN <<Ch(".")>> ELSE <<>>

\* a-form: a subnormal is shifted left until bit 52 is set
RECURSIVE AFormNormalize(_, _)
AFormNormalize(significand, exp_val) ==
    IF UBit(significand, SIGNIFICAND_BITS) = 1
    THEN [significand |-> significand, exp_val |-> exp_val]
    ELSE AFormNormalize(UFix(UShl(significand, 1), 8), exp_val - 1)

\* a-form: the 53-bit significand with its binary exponent
AFormOperand(exponent_biased, significand) ==
    IF exponent_biased = 0 THEN AFormNormalize(significand, 0 - 1022)
    ELSE [significand |-> UAddN(significand, UShl(<<1>>, SIGNIFICAND_BITS), 8),
          exp_val |-> exponent_biased - 1023]

\* a-form: the round bit is set and the sticky bits or the last kept bit are
AFormRoundsUp(significand, bits_to_remove) ==
    /\ UBit(significand, bits_to_remove - 1) = 1
    /\ \/ ~UIsZero(ULowBits(significand, bits_to_remove - 1))
       \/ UBit(significand, bits_to_remove) = 1

\* a-form: a carry into bit 53 halves the significand and raises the exponent
AFormCarry(v) ==
    IF UBit(v.significand, SIGNIFICAND_BITS + 1) = 1
    THEN [significand |-> UFix(UShr(v.significand, 1), 8), exp_val |-> v.exp_val + 1]
    ELSE v

AFormAdd(v, bits_to_remove) ==
    IF AFormRoundsUp(v.significand, bits_to_remove)
    THEN AFormCarry([v EXCEPT !.significand = UAddN(@, UShl(<<1>>, bits_to_remove), 8)])
    ELSE v

AFormClear(v, bits_to_remove) ==
    [v EXCEPT !.significand = UFix(UShl(UShr(@, bits_to_remove), bits_to_remove), 8)]

\* a-form: ties-to-even rounding to precision hexadecimal digits
AFormRound(v, precision) ==
    IF precision < 13 /\ 52 - precision * 4 > 0
    THEN AFormClear(AFormAdd(v, 52 - precision * 4), 52 - precision * 4)
    ELSE v

\* the reversed decimal digits of the exponent's magnitude
ExponentDigits(exp_val, fi) ==
    yalc_itora(SizeT(IF exp_val < 0 THEN 0 - exp_val ELSE exp_val),
               [fi EXCEPT !.radix = RADIX_DEC]).num_buff

AFormSuffix(exp_val, fi) ==
    ExponentDigits(exp_val, fi)
    \o <<IF exp_val < 0 THEN Ch("-") ELSE Ch("+"),
         IF IsUppercase(fi) THEN Ch("P") ELSE Ch("p")>>

\* a-form: the leading digit goes to the prefix, of the others the top
\* precision are kept (len is the count without the leading digit)
AFormOut(it, len, exp_val, prefix, sign_char, fi) ==
    PutdDone(IF len > fi.precision
             THEN SubSeq(it.num_buff, (len - fi.precision) + 1, len)
             ELSE SubSeq(it.num_buff, 1, len),
             MinOf(len, fi.precision),
             prefix \o <<Ch("0"), IF IsUppercase(fi) THEN Ch("X") ELSE Ch("x"),
                         it.num_buff[len + 1]>>
                    \o Point(fi.precision # 0 \/ Has(fi.flags, FFLAG_ALT)),
             AFormSuffix(exp_val, fi), sign_char,
             [fi EXCEPT !.num_pad = IF fi.precision > len THEN fi.precision - len ELSE @,
                        !.radix = 10,
                        !.flags = (@ \cup TRFLAG_REVERSE_NUM) \cup TRFLAG_REVERSE_SUFFIX])

AFormRounded(v, prefix, sign_char, fi) ==
    AFormOut(yalc_itora(v.significand, fi), yalc_itora(v.significand, fi).len - 1,
             v.exp_val, prefix, sign_char, fi)

\* case 4 of the switch
PutdAForm(exponent_biased, significand, prefix, sign_char, fi) ==
    AFormRounded(AFormRound(AFormOperand(exponent_biased, significand), fi.precision),
                 prefix, sign_char, fi)

\* e-form, 9.9 -> 10.0: a rounded value one digit longer loses its last digit
EFormCarry(fraction10, exponent10, frac_digits, skipped_digits) ==
    IF yalc_count_digits(fraction10, 10) > frac_digits - skipped_digits
    THEN Decimal(Div10(fraction10), exponent10 + 1)
    ELSE Decimal(fraction10, exponent10)

\* e-form: round to precision digits after the first
EFormRound(dec, frac_digits, precision) ==
    IF precision < frac_digits - 1
    THEN EFormCarry(yalc_round_to_digits(dec.fraction10, frac_digits - 1, precision),
                    dec.exponent10, frac_digits, (frac_digits - 1) - precision)
    ELSE dec

\* e-form: zeroes up to precision digits, when trailing zeroes are wanted
EFormPad(frac_digits, add_trailing_zeros, fi) ==
    IF fi.precision >= frac_digits - 1 /\ add_trailing_zeros
    THEN fi.precision - (frac_digits - 1)
    ELSE fi.num_pad

\* e-form: the exponent has at least two digits
EFormSuffix(exp_val, fi) ==
    ExponentDigits(exp_val, fi)
    \o (IF Len(ExponentDigits(exp_val, fi)) < 2 THEN <<Ch("0")>> ELSE <<>>)
    \o <<IF exp_val < 0 THEN Ch("-") ELSE Ch("+"),
         IF IsUppercase(fi) THEN Ch("E") ELSE Ch("e")>>

EFormOut(it, exp_val, num_pad, prefix, sign_char, fi) ==
    PutdDone(SubSeq(it.num_buff, 1, it.len - 1), it.len - 1,
             prefix \o <<it.num_buff[it.len]>>
                    \o Point(it.len - 1 > 0 \/ num_pad # 0 \/ Has(fi.flags, FFLAG_ALT)),
             EFormSuffix(exp_val, fi), sign_char,
             [fi EXCEPT !.num_pad = num_pad,
                        !.flags = (@ \cup TRFLAG_REVERSE_NUM) \cup TRFLAG_REVERSE_SUFFIX])

EFormRounded(dec, frac_digits, add_trailing_zeros, prefix, sign_char, fi) ==
    EFormOut(yalc_itora(dec.fraction10, fi), dec.exponent10 + (frac_digits - 1),
             EFormPad(frac_digits, add_trailing_zeros, fi), prefix, sign_char, fi)

\* case 2 of the switch
PutdEForm(dec, frac_digits, add_trailing_zeros, prefix, sign_char, fi) ==
    EFormRounded(EFormRound(dec, frac_digits, fi.precision), frac_digits,
                 add_trailing_zeros, prefix, sign_char, fi)

\* f-form, case 1 (exponent10 >= 0): the digits, exponent10 zeroes, and the
\* point with precision zeroes
FFormInteger(it, exponent10, point, prefix, sign_char, fi) ==
    PutdDone(it.num_buff, it.len, prefix, Point(point), sign_char,
             [fi EXCEPT !.num_pad = exponent10,
                        !.suffix_pad = IF point THEN fi.precision ELSE @,
                        !.flags = it.flags])

\* f-form, case 2: "0" or, on a carry, "1", and the point
FFormLead(num, carry, prefix, sign_char, fi) ==
    PutdDone(num, Len(num),
             prefix \o <<Ch("0") + carry>>
                    \o Point(fi.precision # 0 \/ Has(fi.flags, FFLAG_ALT)),
             <<>>, sign_char, fi)

\* f-form, case 2, the precision ends within the leading zeroes
FFormZeroes(add_trailing_zeros, prefix, sign_char, fi) ==
    FFormLead(<<>>, 0, prefix, sign_char,
              IF add_trailing_zeros THEN [fi EXCEPT !.num_pad = 0 - fi.precision]
              ELSE [fi EXCEPT !.precision = 0])

\* f-form, case 2, the precision covers every digit
FFormWhole(it, leading_zeroes, decimal_digits, add_trailing_zeros, prefix, sign_char, fi) ==
    FFormLead(it.num_buff, 0, prefix, sign_char,
              [fi EXCEPT !.num_pad = 0 - leading_zeroes,
                         !.suffix_pad = IF add_trailing_zeros
                                        THEN fi.precision - decimal_digits ELSE @,
                         !.flags = it.flags])

\* f-form, case 2, the digits are rounded to those the precision covers; a
\* value that grows by a digit is taken for 0.99.. -> 1.00..
FFormPart(it, leading_zeroes, remaining_digits, add_trailing_zeros, prefix, sign_char, fi) ==
    IF it.len > remaining_digits
    THEN FFormLead(<<>>, 1, prefix, sign_char,
                   IF add_trailing_zeros
                   THEN [fi EXCEPT !.suffix_pad = remaining_digits,
                                   !.num_pad = 0 - leading_zeroes, !.flags = it.flags]
                   ELSE [fi EXCEPT !.precision = 0,
                                   !.num_pad = 0 - leading_zeroes, !.flags = it.flags])
    ELSE FFormLead(it.num_buff, 0, prefix, sign_char,
                   [fi EXCEPT !.num_pad = 0 - leading_zeroes, !.flags = it.flags])

\* f-form, case 2 (int_digits <= 0)
FFormFraction(fraction10, frac_digits, leading_zeroes, add_trailing_zeros, prefix, sign_char, fi) ==
    IF fi.precision <= leading_zeroes
    THEN FFormZeroes(add_trailing_zeros, prefix, sign_char, fi)
    ELSE IF fi.precision >= leading_zeroes + frac_digits
    THEN FFormWhole(yalc_itora(fraction10, fi), leading_zeroes,
                    leading_zeroes + frac_digits, add_trailing_zeros,
                    prefix, sign_char, fi)
    ELSE FFormPart(yalc_itora(yalc_round_to_digits(fraction10, frac_digits,
                                                   fi.precision - leading_zeroes), fi),
                   leading_zeroes, fi.precision - leading_zeroes, add_trailing_zeros,
                   prefix, sign_char, fi)

\* f-form, case 3: how many of the first n characters of num_buff are '0',
\* counted from index 0 up to the first that is not
RECURSIVE ZeroRun(_, _, _)
ZeroRun(num_buff, i, n) ==
    IF i < n /\ num_buff[i + 1] = Ch("0") THEN 1 + ZeroRun(num_buff, i + 1, n) ELSE 0

\* f-form, case 3: suffix is num_buff cut to suffix_len, prefix is num_buff
\* from untrimed_suffix_len on, and num is the point
FFormSplit(num_buff, untrimed_suffix_len, suffix_len, point, add_trailing_zeros, sign_char, fi) ==
    PutdDone(Point(point), IF point THEN 1 ELSE 0,
             SubSeq(num_buff, untrimed_suffix_len + 1, Len(num_buff)),
             SubSeq(num_buff, 1, suffix_len), sign_char,
             [fi EXCEPT !.suffix_pad = IF point /\ add_trailing_zeros
                                       THEN fi.precision - suffix_len ELSE @,
                        !.flags = ((@ \cup TRFLAG_REVERSE_NUM)
                                   \cup TRFLAG_REVERSE_PREFIX) \cup TRFLAG_REVERSE_SUFFIX])

FFormTrim(num_buff, untrimed_suffix_len, suffix_len, add_trailing_zeros, sign_char, fi) ==
    FFormSplit(num_buff, untrimed_suffix_len, suffix_len,
               \/ (add_trailing_zeros /\ untrimed_suffix_len # 0)
               \/ suffix_len # 0
               \/ Has(fi.flags, FFLAG_ALT),
               add_trailing_zeros, sign_char, fi)

\* f-form, case 3: the sign, if the prefix holds it, goes on top of num_buff
FFormBuffer(num_buff, suffix_len, add_trailing_zeros, sign_char, fi) ==
    FFormTrim(num_buff, suffix_len, suffix_len - ZeroRun(num_buff, 0, suffix_len),
              add_trailing_zeros, sign_char, fi)

\* f-form, case 3 (0 < int_digits < frac_digits)
FFormMixed(fraction10, decimal_digits, add_trailing_zeros, prefix, sign_char, fi) ==
    FFormBuffer(yalc_itora(yalc_round_to_digits(fraction10, decimal_digits, fi.precision),
                           fi).num_buff
                \o (IF prefix # <<>> THEN <<prefix[1]>> ELSE <<>>),
                MinOf(fi.precision, decimal_digits), add_trailing_zeros, sign_char, fi)

\* f_form: the default case of the switch
PutdFForm(dec, frac_digits, add_trailing_zeros, prefix, sign_char, fi) ==
    IF frac_digits + dec.exponent10 >= frac_digits
    THEN FFormInteger(yalc_itora(dec.fraction10, fi), dec.exponent10,
                      (add_trailing_zeros /\ fi.precision # 0) \/ Has(fi.flags, FFLAG_ALT),
                      prefix, sign_char, fi)
    ELSE IF frac_digits + dec.exponent10 <= 0
    THEN FFormFraction(dec.fraction10, frac_digits, (0 - dec.exponent10) - frac_digits,
                       add_trailing_zeros, prefix, sign_char, fi)
    ELSE FFormMixed(dec.fraction10, frac_digits - (frac_digits + dec.exponent10),
                    add_trailing_zeros, prefix, sign_char, fi)

\* g-form: f-form if the exponent of the unrounded value is at least -4 and
\* below the precision, e-form otherwise; the precision left is what the
\* form taken goes on with
GFormChoice(exp_val, add_trailing_zeros, fi) ==
    IF fi.precision > exp_val /\ exp_val >= 0 - 4
    THEN [eform |-> FALSE, add_trailing_zeros |-> add_trailing_zeros,
          fi |-> [fi EXCEPT !.precision = @ - (exp_val + 1)]]
    ELSE [eform |-> TRUE, add_trailing_zeros |-> add_trailing_zeros,
          fi |-> [fi EXCEPT !.precision = @ - 1]]

\* case 3 of the switch, up to the goto f_form or the fall through to case 2:
\* precision 0 counts as 1
PutdGForm(dec, frac_digits, fi) ==
    GFormChoice((dec.exponent10 + frac_digits) - 1, Has(fi.flags, FFLAG_ALT),
                [fi EXCEPT !.precision = IF @ = 0 THEN 1 ELSE @])

\* (fi->flags >> 22) & 7
PutdForm(fi) ==
    (IF Has(fi.flags, SFLAG_IS_FFORM) THEN 1 ELSE 0)
    + (IF Has(fi.flags, SFLAG_IS_EFORM) THEN 2 ELSE 0)
    + (IF Has(fi.flags, SFLAG_IS_AFORM) THEN 4 ELSE 0)

\* case 2 and f_form, entered directly or from case 3
PutdForms(choice, dec, frac_digits, prefix, sign_char) ==
    IF choice.eform
    THEN PutdEForm(dec, frac_digits, choice.add_trailing_zeros, prefix, sign_char,
                   choice.fi)
    ELSE PutdFForm(dec, frac_digits, choice.add_trailing_zeros, prefix, sign_char,
                   choice.fi)

\* the switch on the form, for the forms that go through decimal
PutdSwitch(form, dec, frac_digits, prefix, sign_char, fi) ==
    PutdForms(IF form = 3 THEN PutdGForm(dec, frac_digits, fi)
              ELSE [eform |-> form = 2, add_trailing_zeros |-> TRUE, fi |-> fi],
              dec, frac_digits, prefix, sign_char)

\* frac_digits: counted only where the value went through decimal (form < 4)
PutdFracDigits(form, dec, fi) ==
    IF form < 4 THEN yalc_count_digits(dec.fraction10, fi.radix) ELSE 0

PutdDecimal(form, dec, prefix, sign_char, fi) ==
    PutdSwitch(form, dec, PutdFracDigits(form, dec, fi), prefix, sign_char, fi)

\* Where the conversion to decimal is unpredictable (biased exponents 1077 to
\* 1080) fraction10 and exponent10 are taken as left at 0.
PutdKnown(dec) == IF dec.ub THEN Decimal(SizeT(0), 0) ELSE dec

\* a finite value other than zero
PutdFinite(exponent_biased, significand, prefix, sign_char, fi) ==
    IF PutdForm(fi) = 4
    THEN PutdAForm(exponent_biased, significand, prefix, sign_char, fi)
    ELSE PutdDecimal(PutdForm(fi),
                     IF PutdForm(fi) < 4
                     THEN PutdKnown(yalc_double_to_decimal(exponent_biased, significand))
                     ELSE Decimal(SizeT(0), 0),
                     prefix, sign_char, fi)

PutdBranch(exponent_biased, significand, sign_char, fi) ==
    IF exponent_biased = EXPONENT_MASK
    THEN PutdNanInf(significand, PutdSignPrefix(sign_char, fi),
                    PutdSignKept(sign_char, fi), fi)
    ELSE IF exponent_biased = 0 /\ UIsZero(significand)
    THEN PutdZero(PutdSignPrefix(sign_char, fi), PutdSignKept(sign_char, fi), fi)
    ELSE PutdFinite(exponent_biased, significand, PutdSignPrefix(sign_char, fi),
                    PutdSignKept(sign_char, fi), fi)

\* yalc_putd
yalc_putd(in, fi) ==
    PutdBranch(PutdExponent(in), PutdSignificand(in), PutdSignChar(PutdSign(in), fi),
               [fi EXCEPT !.precision = PutdPrecision(fi)])

-----------------------------------------------------------------------------
(* Memory search: memchr and strnlen_s.  Memory is a sequence of bytes, the *)
(* byte at address a being its a-th element; address 0 is the null pointer. *)

WORD_SIZE == 8
WORD_MASK == WORD_SIZE - 1
ONES == [k \in 1..WORD_SIZE |-> 1]

\* bitwise exclusive or of two bytes
RECURSIVE ByteXor(_, _, _)
ByteXor(a, b, bits) ==
    IF bits = 0 THEN 0
    ELSE IF b = 0 THEN a
    ELSE ((a + b) % 2) + 2 * ByteXor(a \div 2, b \div 2, bits - 1)

\* *src.as_ulong ^ mask, the mask being ONES * byte
WordXor(bytes, src, byte) ==
    [k \in 1..WORD_SIZE |-> ByteXor(Limb(bytes, src + k - 1), byte, 8)]

\* ((x - ONES) & ~x & HIGHS) != 0
HighBits(d, x) == \E k \in 1..WORD_SIZE : d[k] >= 128 /\ x[k] < 128
HAS_ZERO(x) == HighBits(USubN(x, ONES, WORD_SIZE), x)

\* the last loop: byte by byte through what remains
RECURSIVE MemchrTail(_, _, _, _)
MemchrTail(bytes, src, byte, remaining) ==
    IF remaining <= 0 THEN 0
    ELSE IF Limb(bytes, src) = byte THEN src
    ELSE MemchrTail(bytes, src + 1, byte, remaining - 1)

\* word by word until a word holds the byte
RECURSIVE MemchrWords(_, _, _, _)
MemchrWords(bytes, src, byte, remaining) ==
    IF remaining >= WORD_SIZE /\ ~HAS_ZERO(WordXor(bytes, src, byte))
    THEN MemchrWords(bytes, src + WORD_SIZE, byte, remaining - WORD_SIZE)
    ELSE MemchrTail(bytes, src, byte, remaining)

\* byte by byte up to the alignment boundary
RECURSIVE MemchrHead(_, _, _, _)
MemchrHead(bytes, src, byte, remaining) ==
    IF (src % WORD_SIZE) # 0 /\ remaining > 0
    THEN IF Limb(bytes, src) = byte THEN src
         ELSE MemchrHead(bytes, src + 1, byte, remaining - 1)
    ELSE MemchrWords(bytes, src, byte, remaining)

\* memchr: the address of the first byte equal to c, or 0
memchr(bytes, src_ptr, c, len) ==
    IF src_ptr = 0 \/ len = 0 THEN 0
    ELSE MemchrHead(bytes, src_ptr, c % 256, len)

\* strnlen_s, and strnlen, its alias
StrnlenResult(res, str_ptr, maxlen) == IF res # 0 THEN res - str_ptr ELSE maxlen
strnlen_s(bytes, str_ptr, maxlen) ==
    StrnlenResult(memchr(bytes, str_ptr, 0, maxlen), str_ptr, maxlen)

\* a string laid out with its terminator at address WORD_SIZE + off, the
\* bytes around it up to the word boundaries being fill
PlaceBody(str, off, fill) == [k \in 1..(WORD_MASK + off) |-> fill] \o str \o <<0>>
PlaceTail(body, fill) ==
    body \o [k \in 1..((WORD_SIZE - ((Len(body) + 1) % WORD_SIZE)) % WORD_SIZE) |-> fill]
Place(str, off, fill) == PlaceTail(PlaceBody(str, off, fill), fill)

-----------------------------------------------------------------------------
(* The LIFO allocator: realloc, malloc and free.  Addresses and sizes are  *)
(* 8-limb images of uintptr_t and size_t; ram maps the address of each     *)
(* word written to its value.                                              *)

ALLOC_ALIGN == 8
METADATA_AC_MASK == ALLOC_ALIGN - 1

\* the linker's values: a heap of HeapBytes bytes above the stack
HeapBytes == 64
stack_start == SizeT(4096)
ram_end == UAddN(stack_start, SizeT(HeapBytes), 8)

\* x & ~(ALLOC_ALIGN - 1) and x & (ALLOC_ALIGN - 1)
ClearLow(x) == [x EXCEPT ![1] = @ - (@ % ALLOC_ALIGN)]
LowBits(x) == x[1] % ALLOC_ALIGN

\* ALIGN_UP(x), in size_t
ALIGN_UP(x) == ClearLow(UAddN(x, SizeT(ALLOC_ALIGN - 1), 8))

\* bitwise or of two bytes
RECURSIVE ByteOr(_, _, _)
ByteOr(a, b, bits) ==
    IF bits = 0 THEN 0
    ELSE (IF (a % 2) + (b % 2) > 0 THEN 1 ELSE 0)
         + 2 * ByteOr(a \div 2, b \div 2, bits - 1)

\* total_alloc_size | (alloc_count & METADATA_AC_MASK)
Metadata(total_alloc_size, alloc_count) ==
    [total_alloc_size EXCEPT ![1] = ByteOr(@, alloc_count % ALLOC_ALIGN, 8)]

\* the allocator's statics before the first call
AllocInit ==
    [alloc_lock |-> 0, heap_end |-> SizeT(0), last_alloc_end |-> SizeT(0),
     total_alloc_size |-> SizeT(0), alloc_count |-> 0, ram |-> <<>>]

\* a word of ram; junk is what a word never written holds
RamRead(ram, addr, junk) ==
    IF \E k \in 1..Len(ram) : ram[k].addr = addr
    THEN (CHOOSE w \in {ram[k] : k \in 1..Len(ram)} : w.addr = addr).val
    ELSE junk
RamWrite(ram, addr, val) ==
    SelectSeq(ram, LAMBDA w : w.addr # addr) \o <<[addr |-> addr, val |-> val]>>

\* lock taken, last_alloc_end and heap_end set on first use
AllocEnter(al) ==
    [al EXCEPT !.alloc_lock = 1,
               !.last_alloc_end = IF UIsZero(@) THEN stack_start ELSE @,
               !.heap_end = IF UIsZero(@) THEN ram_end ELSE @]

\* done: and err:
AllocDone(al, result) ==
    [al |-> [al EXCEPT !.alloc_lock = 0], result |-> result, aborted |-> FALSE]
AllocErr(al) == [al |-> al, result |-> SizeT(0), aborted |-> TRUE]

\* alloc: once the space is there
AllocCommit(al, start_ptr, aligned_size, end_ptr, new_alloc, saved_metadata_val) ==
    AllocDone(
        [al EXCEPT
           !.last_alloc_end = end_ptr,
           !.alloc_count = @ + new_alloc,
           !.ram = RamWrite(@, UAddN(start_ptr, aligned_size, 8),
                            IF new_alloc = 1
                            THEN Metadata(al.total_alloc_size, al.alloc_count + new_alloc)
                            ELSE saved_metadata_val),
           !.total_alloc_size = USubN(end_ptr, stack_start, 8)],
        start_ptr)

AllocSpace(al, start_ptr, aligned_size, end_ptr, new_alloc, saved_metadata_val) ==
    IF ULess(al.heap_end, end_ptr) THEN AllocDone(al, SizeT(0))
    ELSE AllocCommit(al, start_ptr, aligned_size, end_ptr, new_alloc, saved_metadata_val)

\* alloc:
Alloc(al, ptr, size, new_alloc, saved_metadata_val) ==
    AllocSpace(al, ptr, ALIGN_UP(size),
               UAddN(UAddN(ptr, ALIGN_UP(size), 8), SizeT(ALLOC_ALIGN), 8),
               new_alloc, saved_metadata_val)

\* free: rewind to the previous allocation
AllocRewind(al, start_ptr, last_alloc_size) ==
    AllocDone([al EXCEPT !.last_alloc_end = start_ptr,
                         !.total_alloc_size = USubN(@, last_alloc_size, 8),
                         !.alloc_count = @ - 1],
              SizeT(0))

\* the checks on the last allocation's metadata, then resize or free
AllocLast(al, ptr, size, metadata, start_ptr, last_alloc_size) ==
    IF last_alloc_size # USubN(al.last_alloc_end, start_ptr, 8) THEN AllocErr(al)
    ELSE IF ptr # start_ptr THEN AllocDone(al, SizeT(0))
    ELSE IF ~UIsZero(size) THEN Alloc(al, ptr, size, 0, metadata)
    ELSE AllocRewind(al, start_ptr, last_alloc_size)

AllocMetadata(al, ptr, size, metadata) ==
    IF LowBits(metadata) # al.alloc_count % ALLOC_ALIGN THEN AllocErr(al)
    ELSE AllocLast(al, ptr, size, metadata,
                   UAddN(stack_start, ClearLow(metadata), 8),
                   USubN(al.total_alloc_size, ClearLow(metadata), 8))

AllocExisting(al, ptr, size, junk) ==
    IF al.alloc_count = 0 THEN AllocErr(al)
    ELSE AllocMetadata(al, ptr, size,
                       RamRead(al.ram, USubN(al.last_alloc_end, SizeT(ALLOC_ALIGN), 8),
                               junk))

AllocBody(al, ptr, size, junk) ==
    IF UIsZero(ptr)
    THEN IF UIsZero(size) THEN AllocDone(al, SizeT(0))
         ELSE Alloc(al, al.last_alloc_end, size, 1, SizeT(0))
    ELSE AllocExisting(al, ptr, size, junk)

\* realloc
realloc(al, ptr, size, junk) ==
    IF ~ULess(UAddN(stack_start, SizeT(ALLOC_ALIGN), 8), ram_end)
    THEN [al |-> al, result |-> SizeT(0), aborted |-> FALSE]
    ELSE AllocBody(AllocEnter(al), ptr, size, junk)

malloc(al, size, junk) == realloc(al, SizeT(0), size, junk)
free(al, ptr, junk) == realloc(al, ptr, SizeT(0), junk)

-----------------------------------------------------------------------------
(* Dispatch loop: yalc_xprintf.                                            *)

\* strnlen of a string argument, which is the null pointer or a string held
\* at a word boundary
strnlen(str_ptr, maxlen) ==
    IF str_ptr = NULL THEN strnlen_s(<<>>, 0, maxlen)
    ELSE strnlen_s(Place(str_ptr, 0, 0), WORD_SIZE, maxlen)

\* sizeof(uint_fastN_t) on the bare-metal RV64 toolchain
SizeofFast(bits) ==
    CASE bits = 8 -> 4 [] bits = 16 -> 4 [] bits = 32 -> 4 [] bits = 64 -> 8 [] OTHER -> 0

\* the bit length the integer case settles on; 0 when it returns -EINVAL
IntBitlen(fi) ==
    IF fi.int_bitlen = 0
    THEN 8 * (IF Has(fi.flags, LFLAG_INTMAX) THEN 8
              ELSE IF Has(fi.flags, LFLAG_LONG_LONG) THEN 8
              ELSE IF Has(fi.flags, LFLAG_LONG) THEN 8
              ELSE IF Has(fi.flags, LFLAG_SIZET) THEN 8
              ELSE IF Has(fi.flags, LFLAG_PTRDIFF) THEN 8
              ELSE IF Has(fi.flags, LFLAG_HALF) THEN 2
              ELSE IF Has(fi.flags, LFLAG_HALF_HALF) THEN 1
              ELSE 4)
    ELSE IF Has(fi.flags, SFLAG_IS_FAST) THEN 8 * SizeofFast(fi.int_bitlen)
    ELSE fi.int_bitlen

\* (intN_t) and (uintN_t) of a register image, widened to intmax_t / uintmax_t
SignExtend(a, bytes) ==
    [k \in 1..8 |-> IF k <= bytes THEN Limb(a, k)
                    ELSE IF Limb(a, bytes) >= 128 THEN 255 ELSE 0]
ZeroExtend(a, bytes) == [k \in 1..8 |-> IF k <= bytes THEN Limb(a, k) ELSE 0]

XCont(emit, i, va) == [emit |-> emit, i |-> i, va |-> va, exit |-> "continue", ret |-> 0]
XReturn(ret, i, va) == [emit |-> <<>>, i |-> i, va |-> va, exit |-> "return", ret |-> ret]

XInt(fi0, i, va) ==
    LET bitlen == IntBitlen(fi0)
        fi == [fi0 EXCEPT !.int_bitlen = bitlen]
        arg == IF va.ints = <<>> THEN SizeT(0) ELSE va.ints[1]
        va1 == IF va.ints = <<>> THEN va ELSE [va EXCEPT !.ints = Tail(@)]
        intval == IF Has(fi.flags, SFLAG_IS_SIGNED)
                  THEN SignExtend(arg, bitlen \div 8)
                  ELSE ZeroExtend(arg, bitlen \div 8)
    IN  IF bitlen \in {8, 16, 32, 64}
        THEN XCont(yalc_putll(intval, fi), i + 1, va1)
        ELSE XReturn(0 - EINVAL, i, va)

NullText == Str(<<"(", "n", "u", "l", "l", ")">>)

XChar(fi, i, va) ==
    LET arg == IF va.ints = <<>> THEN SizeT(0) ELSE va.ints[1]
        va1 == IF va.ints = <<>> THEN va ELSE [va EXCEPT !.ints = Tail(@)]
        fld == [yalc_clear_fld EXCEPT !.inbuff = <<Limb(arg, 1)>>, !.inbuff_len = 1]
    IN  XCont(yalc_pf_field_out(fld, fi), i + 1, va1)

XString(fi, i, va) ==
    LET strval == IF va.strs = <<>> THEN NULL ELSE va.strs[1]
        va1 == IF va.strs = <<>> THEN va ELSE [va EXCEPT !.strs = Tail(@)]
        fld == IF strval = NULL
               THEN [yalc_clear_fld EXCEPT !.inbuff = NullText, !.inbuff_len = 6]
               ELSE [yalc_clear_fld EXCEPT
                       !.inbuff = strval,
                       !.inbuff_len =
                           IF Has(fi.flags, SFLAG_HAS_PREC) /\ fi.precision >= 0
                           THEN strnlen(strval, fi.precision)
                           ELSE strnlen(strval, YALC_DEFAULT_STR_PREC)]
    IN  XCont(yalc_pf_field_out(fld, fi), i + 1, va1)

\* yalc_putd_stub: the float-free renderer
yalc_putd_stub(in, fi) ==
    yalc_pf_field_out([yalc_clear_fld EXCEPT !.inbuff = NaText, !.inbuff_len = 5], fi)

XDouble(fi, i, va) ==
    LET dval == IF va.dbls = <<>> THEN SizeT(0) ELSE va.dbls[1]
        va1 == IF va.dbls = <<>> THEN va ELSE [va EXCEPT !.dbls = Tail(@)]
    IN  IF Has(fi.flags, LFLAG_LONG)
        THEN XCont(yalc_pf_field_out(
                     [yalc_clear_fld EXCEPT !.inbuff = NaText, !.inbuff_len = 5], fi),
                   i + 1, va1)
        ELSE XCont(yalc_putd(dval, fi), i + 1, va1)

\* the switch on fi.flags & TFLAG_MASK; j is the index after i += ret
XSwitch(type, fi, j, va) ==
    CASE type = TFLAG_INT -> XInt(fi, j, va)
      [] type = TFLAG_DOUBLE -> XDouble(fi, j, va)
      [] type = TFLAG_CHAR -> XChar(fi, j, va)
      [] type = TFLAG_STRING -> XString(fi, j, va)
      [] OTHER -> XCont(<<>>, j + 1, va)

\* after yalc_pf_parse_format returned p at index i
XParsed(p, i) ==
    IF p.ret < 0 THEN XReturn(p.ret, i, p.va)
    ELSE XSwitch(p.fi.flags \cap TFLAG_MASK, p.fi, i + p.ret, p.va)

\* One iteration of the for loop of yalc_xprintf at index i: the characters it
\* hands to yalc_pf_char_out, the index the next iteration starts at, the
\* remaining arguments, and how the iteration leaves the loop.
XIter(fmt, i, va) ==
    IF At(fmt, i) # Ch("%") THEN XCont(<<At(fmt, i)>>, i + 1, va)
    ELSE IF i = Len(fmt) - 1
    THEN [emit |-> <<>>, i |-> i, va |-> va, exit |-> "break", ret |-> 0]
    ELSE IF At(fmt, i + 1) = Ch("%") THEN XCont(<<Ch("%")>>, i + 2, va)
    ELSE XParsed(yalc_pf_parse_format(SubSeq(fmt, i + 1, Len(fmt)), Len(fmt) - i, va), i)

\* what one whole run of yalc_xprintf hands to yalc_pf_char_out
RECURSIVE XText(_, _, _)
XTextFrom(fmt, x) ==
    IF x.exit = "continue" THEN x.emit \o XText(fmt, x.i, x.va) ELSE <<>>
XText(fmt, i, va) ==
    IF i >= Len(fmt) THEN <<>> ELSE XTextFrom(fmt, XIter(fmt, i, va))

-----------------------------------------------------------------------------
(* The printf family as a state machine.  Each hart runs one call at a     *)
(* time; a call advances one loop iteration of yalc_xprintf or one         *)
(* yalc_pf_char_out at a step, so that calls of different harts            *)
(* interleave at character granularity.                                    *)

NHarts == 2
Harts == 0..(NHarts - 1)
MaxCalls == 3
MaxCap == 4
MemSize == MaxCap + 2
MaxPieces == 2

\* the caller's destination buffer
BUF == <<0>>

\* struct output_info out = {0}
OutInit == [outbuff |-> NULL, outbuff_len |-> SizeT(0), chars_out |-> SizeT(0)]

HartInit(fmt, va) ==
    [pc |-> "idle", entry |-> "none", fmt |-> fmt, va0 |-> va, va |-> va, i |-> 0,
     out |-> OutInit, pending |-> <<>>, ret |-> 0, calls |-> 0,
     trace |-> <<>>, stored |-> {}, expected |-> 0, saved |-> <<>>, traps |-> 0]

\* vsnprintf: the body every bounded entry point runs
Enter(h, entry, outbuff, outbuff_len) ==
    [hs[h] EXCEPT !.pc = "loop", !.entry = entry, !.va = hs[h].va0, !.i = 0,
                  !.out = [outbuff |-> outbuff, outbuff_len |-> outbuff_len,
                           chars_out |-> SizeT(0)],
                  !.pending = <<>>, !.ret = 0, !.trace = <<>>, !.stored = {}]

vsnprintf(h, outbuff, outbuff_len) ==
    /\ hs[h].pc = "idle"
    /\ hs' = [hs EXCEPT ![h] = Enter(h, "vsnprintf", outbuff, outbuff_len)]
    /\ UNCHANGED <<printf_lock, console, mem, results, ryu, ita, fo, sl, heap, pa>>

snprintf(h, outbuff, outbuff_len) ==
    /\ hs[h].pc = "idle"
    /\ hs' = [hs EXCEPT ![h] = Enter(h, "snprintf", outbuff, outbuff_len)]
    /\ UNCHANGED <<printf_lock, console, mem, results, ryu, ita, fo, sl, heap, pa>>

vsprintf(h, outbuff) ==
    /\ hs[h].pc = "idle"
    /\ hs' = [hs EXCEPT ![h] = Enter(h, "vsprintf", outbuff, SIZE_MAX)]
    /\ UNCHANGED <<printf_lock, console, mem, results, ryu, ita, fo, sl, heap, pa>>

sprintf(h, outbuff) ==
    /\ hs[h].pc = "idle"
    /\ hs' = [hs EXCEPT ![h] = Enter(h, "sprintf", outbuff, SIZE_MAX)]
    /\ UNCHANGED <<printf_lock, console, mem, results, ryu, ita, fo, sl, heap, pa>>

\* vprintf up to lock_acquire
vprintf(h) ==
    /\ hs[h].pc = "idle"
    /\ hs' = [hs EXCEPT ![h] =
                [Enter(h, "vprintf", NULL, SizeT(0)) EXCEPT !.pc = "acquire",
                                                            !.expected = 0]]
    /\ UNCHANGED <<printf_lock, console, mem, results, ryu, ita, fo, sl, heap, pa>>

printf(h) ==
    /\ hs[h].pc = "idle"
    /\ hs' = [hs EXCEPT ![h] =
                [Enter(h, "printf", NULL, SizeT(0)) EXCEPT !.pc = "acquire",
                                                           !.expected = 0]]
    /\ UNCHANGED <<printf_lock, console, mem, results, ryu, ita, fo, sl, heap, pa>>

\* an exchange that stores 1 whatever it read
CasIgnoresValue(h) == TRUE

\* atomic_compare_exchange_weak_explicit(lock, &expected, 1, ...): the value
\* read equals expected and the store succeeds
CasSucceeds(h) == printf_lock = hs[h].expected

\* One pass of the while condition of lock_acquire.  The weak exchange may
\* also fail although the value read was the expected one.
lock_acquire(h) ==
    /\ hs[h].pc = "acquire"
    /\ \/ /\ CasSucceeds(h)
          /\ printf_lock' = 1
          /\ hs' = [hs EXCEPT ![h].pc = "loop"]
       \/ /\ hs' = [hs EXCEPT ![h].pc = "spin", ![h].expected = printf_lock]
          /\ UNCHANGED printf_lock
    /\ UNCHANGED <<console, mem, results, ryu, ita, fo, sl, heap, pa>>

\* the body of the while loop of lock_acquire: expected = 0; pause();
lock_pause(h) ==
    /\ hs[h].pc = "spin"
    /\ hs' = [hs EXCEPT ![h].pc = "acquire", ![h].expected = 0]
    /\ UNCHANGED <<printf_lock, console, mem, results, ryu, ita, fo, sl, heap, pa>>

\* where control goes when yalc_xprintf returns
AfterXprintf(h) == IF hs[h].entry \in {"printf", "vprintf"} THEN "release" ELSE "ret"

\* return out->chars_out: size_t to int
RetCount(out) == S32(out.chars_out)

\* a loop that does not look at the status of the parser
XApplyIgnoresStatus(h, x) ==
    IF x.exit = "break"
    THEN [hs[h] EXCEPT !.pc = AfterXprintf(h), !.ret = RetCount(hs[h].out)]
    ELSE [hs[h] EXCEPT !.pending = x.emit, !.i = x.i + 1, !.va = x.va]

\* a failing directive returns from vprintf itself, past lock_release
XApplyReturnsPastRelease(h, x) ==
    CASE x.exit = "continue" ->
           [hs[h] EXCEPT !.pending = x.emit, !.i = x.i, !.va = x.va]
      [] x.exit = "break" ->
           [hs[h] EXCEPT !.pc = AfterXprintf(h), !.ret = RetCount(hs[h].out)]
      [] OTHER ->
           [hs[h] EXCEPT !.pc = "ret", !.va = x.va, !.ret = x.ret]

\* the hart after the loop iteration x
XApply(h, x) ==
    CASE x.exit = "continue" ->
           [hs[h] EXCEPT !.pending = x.emit, !.i = x.i, !.va = x.va]
      [] x.exit = "break" ->
           [hs[h] EXCEPT !.pc = AfterXprintf(h), !.ret = RetCount(hs[h].out)]
      [] OTHER ->
           [hs[h] EXCEPT !.pc = AfterXprintf(h), !.va = x.va, !.ret = x.ret]

\* One pass of the for loop of yalc_xprintf, up to its first yalc_pf_char_out.
yalc_xprintf(h) ==
    /\ hs[h].pc = "loop"
    /\ hs[h].pending = <<>>
    /\ IF hs[h].i >= Len(hs[h].fmt)
       THEN hs' = [hs EXCEPT ![h].pc = AfterXprintf(h),
                             ![h].ret = RetCount(hs[h].out)]
       ELSE hs' = [hs EXCEPT ![h] = XApply(h, XIter(hs[h].fmt, hs[h].i, hs[h].va))]
    /\ UNCHANGED <<printf_lock, console, mem, results, ryu, ita, fo, sl, heap, pa>>

\* a payload character stored in the last slot: chars_out < outbuff_len
CharOutEffectLastSlot(out) ==
    IF out.outbuff = NULL THEN "putchar"
    ELSE IF ~UIsZero(out.outbuff_len)
    THEN IF ULess(out.chars_out, out.outbuff_len) THEN "store" ELSE "skip"
    ELSE "skip"

\* what yalc_pf_char_out does with the character
CharOutEffect(out) ==
    IF out.outbuff = NULL THEN "putchar"
    ELSE IF ~UIsZero(out.outbuff_len)
    THEN IF ULess(out.chars_out, USubN(out.outbuff_len, <<1>>, 8)) THEN "store"
         ELSE IF UEq(out.chars_out, USubN(out.outbuff_len, <<1>>, 8)) THEN "terminate"
         ELSE "skip"
    ELSE "skip"

\* a count that advances only when the character went somewhere
CharOutCountStoredOnly(out) ==
    IF CharOutEffect(out) = "skip" THEN out.chars_out
    ELSE UAddN(out.chars_out, <<1>>, 8)

\* out->chars_out++
CharOutCount(out) == UAddN(out.chars_out, <<1>>, 8)

yalc_pf_char_out(h) ==
    LET in == Head(hs[h].pending)
        out == hs[h].out
        effect == CharOutEffect(out)
        at == UToInt(out.chars_out)
    IN  /\ hs[h].pc = "loop"
        /\ hs[h].pending # <<>>
        /\ console' = IF effect = "putchar"
                      THEN Append(console, [hart |-> h, call |-> hs[h].calls,
                                            entry |-> hs[h].entry, ch |-> in])
                      ELSE console
        /\ mem' = IF effect \in {"store", "terminate"} /\ at < MemSize
                  THEN [mem EXCEPT ![h][at] = IF effect = "store" THEN in ELSE 0]
                  ELSE mem
        /\ hs' = [hs EXCEPT ![h].pending = Tail(@),
                            ![h].out.chars_out = CharOutCount(out),
                            ![h].trace = Append(@, in),
                            ![h].stored = IF effect \in {"store", "terminate"}
                                          THEN @ \cup {at} ELSE @]
        /\ UNCHANGED <<printf_lock, results, ryu, ita, fo, sl, heap, pa>>

\* atomic_store_explicit(lock, 0, memory_order_release)
lock_release(h) ==
    /\ hs[h].pc = "release"
    /\ printf_lock' = 0
    /\ hs' = [hs EXCEPT ![h].pc = "ret"]
    /\ UNCHANGED <<console, mem, results, ryu, ita, fo, sl, heap, pa>>

\* the size_t capacity of a finished call, as a number (-1 for SIZE_MAX)
CapOf(out) == IF out.outbuff_len = SIZE_MAX THEN 0 - 1 ELSE UToInt(out.outbuff_len)

\* the entry point returns ret to its caller
Return(h) ==
    /\ hs[h].pc = "ret"
    /\ hs[h].saved = <<>>
    /\ results' = results \cup
                    {[hart |-> h, call |-> hs[h].calls, entry |-> hs[h].entry,
                      outbuff |-> hs[h].out.outbuff, cap |-> CapOf(hs[h].out),
                      ret |-> hs[h].ret, trace |-> hs[h].trace]}
    /\ hs' = [hs EXCEPT ![h].pc = "idle", ![h].calls = @ + 1]
    /\ UNCHANGED <<printf_lock, console, mem, ryu, ita, fo, sl, heap, pa>>

-----------------------------------------------------------------------------
(* Single-hart runs: one console write (printf or vprintf) of a format,    *)
(* then one bounded write of the same format and arguments.                *)

\* the directives and literal text the formats are built from
Pieces ==
    { Str(<<"a">>), Str(<<"%", "d">>), Str(<<"%", "s">>), Str(<<"%", "%">>),
      Str(<<"%", "*", "d">>), Str(<<"%">>),
      Str(<<"%", "n">>), Str(<<"%", "w", "7", "d">>) }

RECURSIVE FormatsOf(_)
FormatsOf(n) ==
    IF n = 0 THEN {<<>>}
    ELSE LET F == FormatsOf(n - 1) IN F \cup {f \o p : f \in F, p \in Pieces}

Formats == FormatsOf(MaxPieces)

\* enough arguments of each type for MaxPieces directives
IntVals == <<0 - 3, 7, 2, 12>>
SinkArgs ==
    VaList([k \in 1..(2 * MaxPieces) |-> I64(IntVals[((k - 1) % 4) + 1])],
           [k \in 1..MaxPieces |-> IF k % 2 = 1 THEN Str(<<"h", "i">>) ELSE NULL],
           <<>>)

\* what the caller's buffer holds before the call
FillBytes == {0, 88}

NoHarness == [pc |-> "off"]

SinkInit ==
    \E fmt \in Formats, fill \in FillBytes :
        /\ hs = [h \in {0} |-> HartInit(fmt, SinkArgs)]
        /\ mem = [h \in {0} |-> [k \in 0..(MemSize - 1) |-> fill]]
        /\ printf_lock = 0
        /\ console = <<>>
        /\ results = {}
        /\ ryu = NoHarness
        /\ sl = NoHarness
        /\ heap = NoHarness
        /\ pa = NoHarness
        /\ ita = NoHarness
        /\ fo = NoHarness

\* sprintf and vsprintf give no capacity: the caller's buffer must hold the text
Fits(h, outbuff) ==
    outbuff = NULL \/ Len(XText(hs[h].fmt, 0, hs[h].va0)) <= MemSize

SinkNext ==
    \/ hs[0].calls = 0 /\ printf(0)
    \/ hs[0].calls = 0 /\ vprintf(0)
    \/ hs[0].calls = 1 /\ \E b \in {NULL, BUF}, n \in 0..MaxCap : snprintf(0, b, SizeT(n))
    \/ hs[0].calls = 1 /\ \E b \in {NULL, BUF}, n \in 0..MaxCap : vsnprintf(0, b, SizeT(n))
    \/ hs[0].calls = 1 /\ \E b \in {NULL, BUF} : Fits(0, b) /\ sprintf(0, b)
    \/ hs[0].calls = 1 /\ \E b \in {NULL, BUF} : Fits(0, b) /\ vsprintf(0, b)
    \/ lock_acquire(0)
    \/ lock_pause(0)
    \/ yalc_xprintf(0)
    \/ yalc_pf_char_out(0)
    \/ lock_release(0)
    \/ Return(0)

SpecSink == SinkInit /\ [][SinkNext]_vars

-----------------------------------------------------------------------------
(* Properties of the bounded writes (SpecSink).                            *)

Bounded == {"snprintf", "vsnprintf", "sprintf", "vsprintf"}
Console == {"printf", "vprintf"}

\* the characters the console write of the run (call 0) emitted
ConsoleText(h, call) ==
    LET own == SelectSeq(console, LAMBDA e : e.hart = h /\ e.call = call)
    IN  [k \in 1..Len(own) |-> own[k].ch]

\* hart h has finished a snprintf/vsnprintf into the caller's buffer of
\* capacity N > 0 with a non-negative count
BoundedDone(h) ==
    /\ hs[h].pc = "ret"
    /\ hs[h].entry \in {"snprintf", "vsnprintf"}
    /\ hs[h].out.outbuff = BUF
    /\ ~UIsZero(hs[h].out.outbuff_len)
    /\ hs[h].ret >= 0

\* C1: after a successful snprintf/vsnprintf into a non-null buffer of
\* capacity N > 0 the buffer holds a zero byte at index min(T, N-1), T being
\* the returned count, also when the output is shorter than the buffer.
C1_AlwaysTerminated ==
    \A h \in DOMAIN hs :
        BoundedDone(h) =>
            mem[h][MinOf(hs[h].ret, CapOf(hs[h].out) - 1)] = 0

\* C2: for one format and argument list every finished call returns the
\* same count, whatever the entry point, buffer and capacity, and the count
\* advances once per character handed to yalc_pf_char_out.
C2_CountIndependentOfCapacity ==
    /\ \A r1, r2 \in results : r1.ret = r2.ret
    /\ \A h \in DOMAIN hs : UToInt(hs[h].out.chars_out) = Len(hs[h].trace)

C2_Witness ==
    \E r1, r2 \in results :
        /\ r1.entry \in Console
        /\ r2.entry = "snprintf" /\ r2.outbuff = BUF
        /\ r2.cap >= 0 /\ r2.cap + 1 < r2.ret

\* k is a slot of a buffer of capacity cap that may take a payload character
PayloadSlot(k, cap) == cap = 0 - 1 \/ k < cap - 1

\* C3: a bounded write with capacity N stores nothing at an index >= N,
\* every slot i < min(T, N-1) written so far holds the i-th character of the
\* console write of the same format, and slot N-1 only ever takes the zero
\* byte.
C3_StoresWithinCapacity ==
    \A h \in DOMAIN hs :
        (hs[h].entry \in Bounded /\ hs[h].out.outbuff = BUF) =>
            LET cap == CapOf(hs[h].out)
                ref == ConsoleText(h, 0)
            IN  /\ \A k \in hs[h].stored : cap = 0 - 1 \/ k < cap
                /\ \A k \in 0..(MemSize - 1) :
                       (k < Len(hs[h].trace) /\ PayloadSlot(k, cap)) =>
                           /\ k \in hs[h].stored
                           /\ k < Len(ref)
                           /\ mem[h][k] = ref[k + 1]
                /\ (cap > 0 /\ (cap - 1) \in hs[h].stored) => mem[h][cap - 1] = 0

C3_Witness ==
    /\ hs[0].pc = "ret" /\ hs[0].entry = "vsnprintf" /\ hs[0].out.outbuff = BUF
    /\ CapOf(hs[0].out) = 3 /\ hs[0].ret > 3
    /\ hs[0].stored = {0, 1, 2}
    /\ mem[0][0] # 0 /\ mem[0][2] = 0

\* C4: the bounded entry points never hand a character to the console and
\* never hold printf_lock, whatever buffer pointer and capacity they get.
C4_BoundedNeverPrints ==
    /\ \A k \in 1..Len(console) : console[k].entry \in Console
    /\ \A h \in DOMAIN hs :
           (hs[h].entry \in Bounded /\ hs[h].pc # "idle") => printf_lock = 0

\* the loop of hart h stands at a directive that the parser or the
\* integer-width dispatch rejects
DirectiveFails(h) ==
    /\ hs[h].pc = "loop" /\ hs[h].pending = <<>>
    /\ hs[h].i < Len(hs[h].fmt)
    /\ XIter(hs[h].fmt, hs[h].i, hs[h].va).exit = "return"

C7_Returned(h) ==
    (hs[h].pc \in {"release", "ret"} /\ hs[h].ret < 0) =>
        /\ hs[h].ret \in {0 - EINVAL, 0 - ENOTSUP}
        /\ hs[h].pending = <<>>
        /\ At(hs[h].fmt, hs[h].i) = Ch("%")
        /\ hs[h].trace = XText(SubSeq(hs[h].fmt, 1, hs[h].i), 0, hs[h].va0)
        /\ hs[h].entry \in Console => ConsoleText(h, hs[h].calls) = hs[h].trace

C7_Step(h) ==
    (DirectiveFails(h) /\ hs'[h] # hs[h]) =>
        /\ hs'[h].pc \in {"release", "ret"}
        /\ hs'[h].ret = XIter(hs[h].fmt, hs[h].i, hs[h].va).ret
        /\ hs'[h].ret < 0
        /\ hs'[h].trace = hs[h].trace
        /\ hs'[h].out = hs[h].out
        /\ console' = console /\ mem' = mem

\* C7: a directive that fails ends the call at once with the negative
\* status: the text before the directive has been emitted and stays, and no
\* character of the directive or of the text after it is emitted or counted.
C7_FailureAborts ==
    /\ [](\A h \in DOMAIN hs : C7_Returned(h))
    /\ [][\A h \in DOMAIN hs : C7_Step(h)]_vars

C7_Witness ==
    /\ hs[0].pc = "ret" /\ hs[0].entry = "snprintf" /\ hs[0].out.outbuff = BUF
    /\ hs[0].ret = 0 - ENOTSUP
    /\ hs[0].trace = Str(<<"a">>) /\ hs[0].i = 1 /\ Len(hs[0].fmt) = 3
    /\ mem[0][0] = Ch("a")
    /\ CapOf(hs[0].out) = 4

-----------------------------------------------------------------------------
(* Concurrent console writes (SpecLock): the harts call printf or vprintf  *)
(* MaxCalls times in all, each hart with a format of its own.              *)

\* plain text with a directive, a directive the parser rejects midway, and
\* a directive the integer-width dispatch rejects
LockFormats ==
    { Str(<<"a", "%", "d">>), Str(<<"b", "%", "n", "c">>),
      Str(<<"c", "%", "w", "7", "d">>) }

LockInit ==
    \E f \in [Harts -> LockFormats] :
        /\ hs = [h \in Harts |-> HartInit(f[h], SinkArgs)]
        /\ mem = [h \in Harts |-> [k \in 0..(MemSize - 1) |-> 0]]
        /\ printf_lock = 0
        /\ console = <<>>
        /\ results = {}
        /\ ryu = NoHarness
        /\ sl = NoHarness
        /\ heap = NoHarness
        /\ pa = NoHarness
        /\ ita = NoHarness
        /\ fo = NoHarness

\* calls begun so far, over all harts
RECURSIVE SumCalls(_)
SumCalls(H) ==
    IF H = {} THEN 0
    ELSE LET h == CHOOSE x \in H : TRUE
         IN  hs[h].calls + (IF hs[h].pc = "idle" THEN 0 ELSE 1) + SumCalls(H \ {h})
CallsStarted == SumCalls(DOMAIN hs)

LockNext ==
    \E h \in Harts :
        \/ CallsStarted < MaxCalls /\ printf(h)
        \/ CallsStarted < MaxCalls /\ vprintf(h)
        \/ lock_acquire(h)
        \/ lock_pause(h)
        \/ yalc_xprintf(h)
        \/ yalc_pf_char_out(h)
        \/ lock_release(h)
        \/ Return(h)

SpecLock == LockInit /\ [][LockNext]_vars

\* hart h is between lock_acquire and lock_release
InCritical(h) == hs[h].entry \in Console /\ hs[h].pc \in {"loop", "release"}

SameCall(p, q) ==
    console[p].hart = console[q].hart /\ console[p].call = console[q].call

\* C5: at most one hart is between lock_acquire and lock_release, and the
\* characters of one call form one contiguous run of the console.
C5_OneWriterAtATime ==
    /\ \A h1, h2 \in DOMAIN hs : (InCritical(h1) /\ InCritical(h2)) => h1 = h2
    /\ \A p, r \in 1..Len(console) :
           (p < r /\ SameCall(p, r)) => \A q \in p..r : SameCall(p, q)

C5_Witness ==
    \E h1, h2 \in DOMAIN hs :
        /\ h1 # h2
        /\ InCritical(h1) /\ hs[h1].pending # <<>> /\ Len(hs[h1].trace) >= 1
        /\ hs[h2].pc = "spin" /\ hs[h2].expected = 1 /\ hs[h2].calls = 1
        /\ \E p, q \in 1..Len(console) :
               /\ p + 2 < q
               /\ console[p].hart = h2 /\ console[q].hart = h1

\* C6: a hart that is not between lock_acquire and lock_release does not
\* hold printf_lock: whenever no console write is under way the lock is 0,
\* also after calls that ended with a negative status, and a call returns
\* only with the lock released by it.
C6_LockReleasedOnEveryPath ==
    /\ (\A h \in DOMAIN hs : ~InCritical(h)) => printf_lock = 0
    /\ (\E h \in DOMAIN hs : InCritical(h)) => printf_lock = 1

C6_Witness ==
    /\ \A h \in DOMAIN hs : hs[h].pc = "idle" /\ hs[h].calls >= 1
    /\ \E r1, r2 \in results :
           /\ r1.ret = 0 - ENOTSUP /\ r1.trace = Str(<<"b">>)
           /\ r2.ret = 0 - EINVAL /\ r2.trace = Str(<<"c">>)
    /\ printf_lock = 0

-----------------------------------------------------------------------------
(* Integer rendering on its own (SpecItora): yalc_itora on a magnitude,    *)
(* then yalc_pf_chars_out of the buffer in the direction the flags ask.    *)

MaxSmall == 40

\* magnitudes: the small ones, every pattern of all-zero and all-one bytes
\* (0, 2^64-1 and the byte boundaries between them), and 2^63
ItoraVals ==
    {SizeT(n) : n \in 0..MaxSmall}
    \cup [1..8 -> {0, 255}]
    \cup {<<0, 0, 0, 0, 0, 0, 0, 128>>, <<255, 255, 255, 255, 255, 255, 255, 127>>}

Radixes == {RADIX_BIN, RADIX_OCT, RADIX_DEC, RADIX_HEX}

ItoraInit ==
    \E val \in ItoraVals, radix \in Radixes, upper \in BOOLEAN :
        /\ ita = [pc |-> "start", val |-> val,
                  fi |-> [yalc_clear_fi EXCEPT
                            !.radix = radix,
                            !.flags = IF upper THEN SFLAG_UPPERCASE ELSE {}],
                  num_buff |-> <<>>, len |-> 0, text |-> <<>>]
        /\ hs = <<>> /\ mem = <<>> /\ console = <<>> /\ results = {}
        /\ printf_lock = 0
        /\ ryu = NoHarness
        /\ sl = NoHarness
        /\ heap = NoHarness
        /\ pa = NoHarness
        /\ fo = NoHarness

\* the state after i = yalc_itora(num_buff, val, fi)
ItoraResult(st, it) ==
    [st EXCEPT !.pc = "rendered", !.num_buff = it.num_buff, !.len = it.len,
               !.fi.flags = it.flags]

ItoraCall ==
    /\ ita.pc = "start"
    /\ ita' = ItoraResult(ita, yalc_itora(ita.val, ita.fi))
    /\ UNCHANGED <<hs, printf_lock, console, mem, results, ryu, fo, sl, heap, pa>>

ItoraEmit ==
    /\ ita.pc = "rendered"
    /\ ita' = [ita EXCEPT !.pc = "done",
                          !.text = yalc_pf_chars_out(ita.num_buff, ita.len,
                                       Has(ita.fi.flags, TRFLAG_REVERSE_NUM))]
    /\ UNCHANGED <<hs, printf_lock, console, mem, results, ryu, fo, sl, heap, pa>>

ItoraNext == ItoraCall \/ ItoraEmit

SpecItora == ItoraInit /\ [][ItoraNext]_vars

\* value of a digit character, -1 if it is none
DigitVal(c) ==
    IF c >= Ch("0") /\ c <= Ch("9") THEN c - Ch("0")
    ELSE IF c >= Ch("a") /\ c <= Ch("f") THEN c - Ch("a") + 10
    ELSE IF c >= Ch("A") /\ c <= Ch("F") THEN c - Ch("A") + 10
    ELSE 0 - 1

\* the number a short digit string denotes, most significant digit first
RECURSIVE SmallValue(_, _)
SmallValue(text, radix) ==
    IF text = <<>> THEN 0
    ELSE SmallValue(SubSeq(text, 1, Len(text) - 1), radix) * radix
         + DigitVal(text[Len(text)])

RECURSIVE Pow(_, _)
Pow(b, n) == IF n = 0 THEN 1 ELSE b * Pow(b, n - 1)

\* digits taken at a time, so that radix^ChunkLen stays below 2^22
ChunkLen(radix) ==
    CASE radix = RADIX_BIN -> 16 [] radix = RADIX_OCT -> 7
      [] radix = RADIX_DEC -> 6 [] OTHER -> 5

\* the number a digit string denotes in a radix, as limbs of any length
RECURSIVE ParseDigits(_, _)
ParseDigits(text, radix) ==
    LET n == ChunkLen(radix)
    IN  IF Len(text) <= n THEN UFromInt(SmallValue(text, radix))
        ELSE UAdd(UMulSmall(ParseDigits(SubSeq(text, 1, Len(text) - n), radix),
                            Pow(radix, n)),
                  UFromInt(SmallValue(SubSeq(text, Len(text) - n + 1, Len(text)),
                                      radix)))

\* C9: the digits yalc_itora produces, read in emission order, are digits of
\* the radix and denote exactly the magnitude that was rendered.
C9_ItoraRoundTrip ==
    ita.pc = "done" =>
        /\ ita.len = Len(ita.text)
        /\ ita.len >= 1 /\ ita.len <= INTBUFF_LEN
        /\ \A k \in 1..Len(ita.text) :
               DigitVal(ita.text[k]) >= 0 /\ DigitVal(ita.text[k]) < ita.fi.radix
        /\ UEq(ParseDigits(ita.text, ita.fi.radix), ita.val)

C9_Witness ==
    /\ ita.pc = "done"
    /\ ita.val = SIZE_MAX
    /\ ita.fi.radix = RADIX_HEX
    /\ ita.text = [k \in 1..16 |-> Ch("F")]

-----------------------------------------------------------------------------
(* Field widths (SpecField): one directive and argument, or one field      *)
(* handed to yalc_pf_field_out, rendered with width w and with width w+1.  *)

MaxWidth == 11

RECURSIVE DecText(_)
DecText(n) ==
    IF n < 10 THEN <<Ch("0") + n>>
    ELSE DecText(n \div 10) \o <<Ch("0") + (n % 10)>>

FieldFlags ==
    { <<>>, Str(<<"-">>), Str(<<"0">>), Str(<<"+">>), Str(<<"#">>),
      Str(<<" ">>), Str(<<"-", "0">>), Str(<<"0", "#">>) }
FieldPrecs == { <<>>, Str(<<".", "0">>), Str(<<".", "3">>), Str(<<".", "3", "2", "4">>) }
\* images of 0.0, -0.0 and +infinity
PositiveZero == UFix(<<>>, 8)
NegativeZero == [k \in 1..8 |-> IF k = 8 THEN 128 ELSE 0]
PositiveInfinity == [k \in 1..8 |-> IF k = 8 THEN 127 ELSE IF k = 7 THEN 240 ELSE 0]

\* finite doubles, as their images, with the conversion each is printed by:
\* 1.5 with %f; 0.25 with %f; 100.0 with %f; 1.2301 with %f; -3.5 with %f;
\* 12345.678 with %e; 0.0001 with %g; 1000000.0 with %g; 1.999 with %a
FiniteArgs ==
    { [conv |-> Ch("f"), va |-> VaList(<<>>, <<>>, <<<<0, 0, 0, 0, 0, 0, 248, 63>>>>)],
      [conv |-> Ch("f"), va |-> VaList(<<>>, <<>>, <<<<0, 0, 0, 0, 0, 0, 208, 63>>>>)],
      [conv |-> Ch("f"), va |-> VaList(<<>>, <<>>, <<<<0, 0, 0, 0, 0, 0, 89, 64>>>>)],
      [conv |-> Ch("f"), va |-> VaList(<<>>, <<>>, <<<<31, 244, 108, 86, 125, 174, 243, 63>>>>)],
      [conv |-> Ch("f"), va |-> VaList(<<>>, <<>>, <<<<0, 0, 0, 0, 0, 0, 12, 192>>>>)],
      [conv |-> Ch("e"), va |-> VaList(<<>>, <<>>, <<<<88, 57, 180, 200, 214, 28, 200, 64>>>>)],
      [conv |-> Ch("g"), va |-> VaList(<<>>, <<>>, <<<<45, 67, 28, 235, 226, 54, 26, 63>>>>)],
      [conv |-> Ch("g"), va |-> VaList(<<>>, <<>>, <<<<0, 0, 0, 0, 128, 132, 46, 65>>>>)],
      [conv |-> Ch("a"), va |-> VaList(<<>>, <<>>, <<<<150, 67, 139, 108, 231, 251, 255, 63>>>>)] }

\* conversion letter with its argument
FieldArgs ==
    FiniteArgs \cup
    { [conv |-> Ch("d"), va |-> VaList(<<I64(42)>>, <<>>, <<>>)],
      [conv |-> Ch("d"), va |-> VaList(<<I64(0 - 42)>>, <<>>, <<>>)],
      [conv |-> Ch("i"), va |-> VaList(<<I64(0)>>, <<>>, <<>>)],
      [conv |-> Ch("u"), va |-> VaList(<<I64(7)>>, <<>>, <<>>)],
      [conv |-> Ch("x"), va |-> VaList(<<I64(255)>>, <<>>, <<>>)],
      [conv |-> Ch("o"), va |-> VaList(<<I64(8)>>, <<>>, <<>>)],
      [conv |-> Ch("x"), va |-> VaList(<<I64(0)>>, <<>>, <<>>)],
      [conv |-> Ch("o"), va |-> VaList(<<I64(0)>>, <<>>, <<>>)],
      [conv |-> Ch("b"), va |-> VaList(<<I64(5)>>, <<>>, <<>>)],
      [conv |-> Ch("B"), va |-> VaList(<<I64(0)>>, <<>>, <<>>)],
      [conv |-> Ch("c"), va |-> VaList(<<I64(65)>>, <<>>, <<>>)],
      [conv |-> Ch("s"), va |-> VaList(<<>>, <<Str(<<"h", "i">>)>>, <<>>)],
      [conv |-> Ch("s"), va |-> VaList(<<>>, <<NULL>>, <<>>)],
      [conv |-> Ch("f"), va |-> VaList(<<>>, <<>>, <<PositiveZero>>)],
      [conv |-> Ch("e"), va |-> VaList(<<>>, <<>>, <<PositiveZero>>)],
      [conv |-> Ch("g"), va |-> VaList(<<>>, <<>>, <<PositiveZero>>)],
      [conv |-> Ch("a"), va |-> VaList(<<>>, <<>>, <<PositiveZero>>)],
      [conv |-> Ch("f"), va |-> VaList(<<>>, <<>>, <<NegativeZero>>)],
      [conv |-> Ch("E"), va |-> VaList(<<>>, <<>>, <<NegativeZero>>)],
      [conv |-> Ch("f"), va |-> VaList(<<>>, <<>>, <<PositiveInfinity>>)] }

\* the directive %<flags><w><prec><conv>; no width digits stand for width 0
DirectiveFmt(c, w) ==
    <<Ch("%")>> \o c.flags \o (IF w = 0 THEN <<>> ELSE DecText(w)) \o c.prec
    \o <<c.conv>>

DirectiveCases ==
    { [kind |-> "directive", flags |-> f, prec |-> p, conv |-> a.conv, va |-> a.va] :
        f \in FieldFlags, p \in FieldPrecs, a \in FieldArgs }

\* fields as the number renderers build them: digits with an optional
\* prefix, suffix and sign, zeroes before or after the digits and after the
\* suffix
FieldData ==
    { [yalc_clear_fld EXCEPT !.inbuff = Str(<<"1", "2">>), !.inbuff_len = 2,
                             !.prefix = pre, !.prefix_len = Len(pre),
                             !.suffix = suf, !.suffix_len = Len(suf),
                             !.sign_char = sc] :
        pre \in {<<>>, Str(<<"0", "x">>)},
        suf \in {<<>>, Str(<<"e", "+", "0", "1">>)},
        sc \in {0, Ch("-")} }

FieldInfos ==
    { [yalc_clear_fi EXCEPT !.flags = t \cup pf, !.num_pad = np, !.suffix_pad = sp] :
        t \in {TFLAG_INT, TFLAG_DOUBLE},
        pf \in {{}, FFLAG_ZERO_PAD, FFLAG_LEFT_ADJ, FFLAG_ZERO_PAD \cup FFLAG_LEFT_ADJ},
        np \in {0 - 2, 0, 2}, sp \in {0, 1} }

FieldCases ==
    { [kind |-> "field", fld |-> d, fi |-> i] : d \in FieldData, i \in FieldInfos }

FieldInit ==
    \E c \in DirectiveCases \cup FieldCases, w \in 0..MaxWidth :
        /\ fo = [pc |-> "start", case |-> c, w |-> w, narrow |-> <<>>, wide |-> <<>>]
        /\ hs = <<>> /\ mem = <<>> /\ console = <<>> /\ results = {}
        /\ printf_lock = 0
        /\ ryu = NoHarness
        /\ sl = NoHarness
        /\ heap = NoHarness
        /\ pa = NoHarness
        /\ ita = NoHarness

\* the characters the case produces with requested width w
Render(c, w) ==
    IF c.kind = "directive" THEN XText(DirectiveFmt(c, w), 0, c.va)
    ELSE yalc_pf_field_out(c.fld, [c.fi EXCEPT !.width = w])

RenderNarrow ==
    /\ fo.pc = "start"
    /\ fo' = [fo EXCEPT !.pc = "narrow", !.narrow = Render(fo.case, fo.w)]
    /\ UNCHANGED <<hs, printf_lock, console, mem, results, ryu, ita, sl, heap, pa>>

RenderWide ==
    /\ fo.pc = "narrow"
    /\ fo' = [fo EXCEPT !.pc = "done", !.wide = Render(fo.case, fo.w + 1)]
    /\ UNCHANGED <<hs, printf_lock, console, mem, results, ryu, ita, sl, heap, pa>>

FieldNext == RenderNarrow \/ RenderWide

SpecField == FieldInit /\ [][FieldNext]_vars

\* b is a with one character c inserted somewhere
Inserted(a, b, c) ==
    \E k \in 0..Len(a) :
        b = SubSeq(a, 1, k) \o <<c>> \o SubSeq(a, k + 1, Len(a))

\* C10: the output for width w+1 is the output for width w, or that output
\* with one more padding character (a space or a '0') put in; every other
\* character and their order are unchanged.
C10_WidthOnlyPads ==
    fo.pc = "done" =>
        \/ fo.wide = fo.narrow
        \/ Inserted(fo.narrow, fo.wide, Ch(" "))
        \/ Inserted(fo.narrow, fo.wide, Ch("0"))

C10_Witness ==
    /\ fo.pc = "done" /\ fo.case.kind = "directive"
    /\ fo.w = 9
    /\ fo.case.flags = Str(<<"0">>) /\ fo.case.prec = <<>>
    /\ fo.narrow = Str(<<"-", "0", "0", "0", "0", "0", "0", "4", "2">>)
    /\ fo.wide = Str(<<"-", "0", "0", "0", "0", "0", "0", "0", "4", "2">>)

IntegerConv == {Ch("d"), Ch("i"), Ch("u"), Ch("x"), Ch("o")}

\* C11: an integer directive with requested width w emits every fragment of
\* its field, so it never emits fewer than w characters.
C11_NeverShorterThanWidth ==
    (fo.pc \in {"narrow", "done"} /\ fo.case.kind = "directive"
     /\ fo.case.conv \in IntegerConv)
        => Len(fo.narrow) >= fo.w

\* a directive, rendered, whose argument is a double zero
ZeroDouble ==
    /\ fo.pc \in {"narrow", "done"} /\ fo.case.kind = "directive"
    /\ fo.case.va.dbls # <<>>
    /\ fo.case.va.dbls[1] \in {PositiveZero, NegativeZero}

\* C12: 0.0 with no flags, width or precision prints 0.000000 for %f,
\* 0.000000e+00 for %e, 0 for %g and 0x0p+0 for %a.
C12_ZeroDefaults ==
    (ZeroDouble /\ fo.case.va.dbls[1] = PositiveZero
     /\ fo.case.flags = <<>> /\ fo.case.prec = <<>> /\ fo.w = 0)
        => fo.narrow =
             CASE fo.case.conv = Ch("f") ->
                    Str(<<"0", ".", "0", "0", "0", "0", "0", "0">>)
               [] fo.case.conv = Ch("e") ->
                    Str(<<"0", ".", "0", "0", "0", "0", "0", "0", "e", "+", "0", "0">>)
               [] fo.case.conv = Ch("g") -> Str(<<"0">>)
               [] fo.case.conv = Ch("a") -> Str(<<"0", "x", "0", "p", "+", "0">>)

HasChar(text, c) == \E k \in 1..Len(text) : text[k] = c

\* C13: a zero double with precision 0 in f-, e- or a-form has a decimal
\* point in its output exactly if the # flag is given.
C13_ZeroPointIffAlt ==
    (ZeroDouble /\ fo.case.prec = Str(<<".", "0">>)
     /\ fo.case.conv \in {Ch("f"), Ch("e"), Ch("E"), Ch("a")})
        => (HasChar(fo.narrow, Ch(".")) <=> HasChar(fo.case.flags, Ch("#")))

\* the octal digits of a small number
RECURSIVE OctText(_)
OctText(n) ==
    IF n < 8 THEN <<Ch("0") + n>>
    ELSE OctText(n \div 8) \o <<Ch("0") + (n % 8)>>

\* the precision a directive of the cases names (none counts as 1, ".0" as 0)
RECURSIVE DecValue(_)
DecValue(text) ==
    IF text = <<>> THEN 0
    ELSE 10 * DecValue(SubSeq(text, 1, Len(text) - 1)) + (text[Len(text)] - Ch("0"))
PrecOf(prec) == IF prec = <<>> THEN 1 ELSE DecValue(Tail(prec))

\* digits with the zeroes the precision asks for; nothing for 0 at precision 0
PrecText(digits, p, n) ==
    IF n = 0 /\ p = 0 THEN <<>>
    ELSE [k \in 1..(MaxOf(p, Len(digits)) - Len(digits)) |-> Ch("0")] \o digits

\* one more zero in front unless the text starts with one
LeadingZero(text) ==
    IF text # <<>> /\ text[1] = Ch("0") THEN text ELSE <<Ch("0")>> \o text

\* a directive with the # flag, rendered, with its integer argument n
Alternate(conv, n) ==
    /\ fo.pc \in {"narrow", "done"} /\ fo.case.kind = "directive"
    /\ HasChar(fo.case.flags, Ch("#")) /\ fo.case.conv = conv
    /\ fo.case.va.ints = <<I64(n)>>

\* C14: with #, hexadecimal and binary get their 0x / 0b prefix exactly if the
\* value is not 0; the octal digits start with '0', through one added zero
\* unless the precision zeroes supply it, and %#o of 0 prints the single 0.
C14_AlternateForm ==
    /\ \A n \in {0, 255} : Alternate(Ch("x"), n) => (HasChar(fo.narrow, Ch("x")) <=> n # 0)
    /\ \A n \in {0, 5} : Alternate(Ch("b"), n) => (HasChar(fo.narrow, Ch("b")) <=> n # 0)
    /\ \A n \in {0, 5} : Alternate(Ch("B"), n) => (HasChar(fo.narrow, Ch("B")) <=> n # 0)
    /\ \A n \in {0, 8} :
           (Alternate(Ch("o"), n) /\ fo.w = 0)
               => fo.narrow = LeadingZero(PrecText(OctText(n), PrecOf(fo.case.prec), n))

\* the digits of a small number in the radix of a conversion letter
RECURSIVE RadixText(_, _)
RadixText(n, radix) ==
    (IF n < radix THEN <<>> ELSE RadixText(n \div radix, radix))
    \o <<IF n % radix >= 10 THEN Ch("a") + ((n % radix) - 10) ELSE Ch("0") + (n % radix)>>
RadixOf(conv) ==
    CASE conv \in {Ch("d"), Ch("i"), Ch("u")} -> 10
      [] conv = Ch("x") -> 16
      [] conv = Ch("o") -> 8
      [] conv \in {Ch("b"), Ch("B")} -> 2

\* the signed small number an 8-limb image stands for
SmallSigned(a) == IF IsNegative64(a) THEN 0 - UToInt(Negate64(a)) ELSE UToInt(a)
Abs(n) == IF n < 0 THEN 0 - n ELSE n

\* sign or alternate-form prefix of an integer directive
SignText(c, n) ==
    IF c.conv \in {Ch("d"), Ch("i")}
    THEN (IF n < 0 THEN <<Ch("-")>>
          ELSE IF HasChar(c.flags, Ch("+")) THEN <<Ch("+")>>
          ELSE IF HasChar(c.flags, Ch(" ")) THEN <<Ch(" ")>> ELSE <<>>)
    ELSE IF HasChar(c.flags, Ch("#")) /\ n # 0 /\ c.conv \in {Ch("x"), Ch("b"), Ch("B")}
    THEN <<Ch("0"), c.conv>>
    ELSE <<>>

\* text put in a field of width w, spaces to its right with the - flag
Spaced(text, w, left) ==
    IF left THEN text \o [k \in 1..(MaxOf(w, Len(text)) - Len(text)) |-> Ch(" ")]
    ELSE [k \in 1..(MaxOf(w, Len(text)) - Len(text)) |-> Ch(" ")] \o text

\* an integer directive that gives a precision, rendered; for # with o the
\* precision in force is the raised one of C14
WithPrecision ==
    /\ fo.pc \in {"narrow", "done"} /\ fo.case.kind = "directive"
    /\ fo.case.conv \in IntegerConv \cup {Ch("b"), Ch("B")}
    /\ fo.case.prec # <<>>
    /\ ~(fo.case.conv = Ch("o") /\ HasChar(fo.case.flags, Ch("#")))

PrecisionDigits(c) ==
    PrecText(RadixText(Abs(SmallSigned(c.va.ints[1])), RadixOf(c.conv)),
             PrecOf(c.prec), SmallSigned(c.va.ints[1]))

\* C15: an integer directive with precision P emits max(P, natural count)
\* digits, the natural digits after leading zeroes, for P = 0, 3 and 324
\* alike; 0 with P = 0 emits no digit.
C15_PrecisionDigits ==
    WithPrecision =>
        fo.narrow = Spaced(SignText(fo.case, SmallSigned(fo.case.va.ints[1]))
                           \o PrecisionDigits(fo.case),
                           fo.w, HasChar(fo.case.flags, Ch("-")))

C15_Witness ==
    /\ WithPrecision /\ fo.w = 0 /\ fo.case.conv = Ch("i")
    /\ fo.case.prec = Str(<<".", "3", "2", "4">>) /\ fo.case.flags = <<>>
    /\ fo.narrow = [k \in 1..324 |-> Ch("0")]

-----------------------------------------------------------------------------
(* String length (SpecStrnlen): one call of strnlen on a null pointer or   *)
(* on a string held at any offset from a word boundary.                    *)

MaxStr == 10
MaxLenArg == 12

\* the characters of the strings: none is 0, some have the high bit set
StrChars == <<97, 1, 200, 128, 255>>
StrOf(length) == [k \in 1..length |-> StrChars[((k - 1) % 5) + 1]]

StrnlenInit ==
    \E length \in 0..MaxStr, off \in 0..WORD_MASK, fill \in {0, 85},
       maxlen \in (0..MaxLenArg) \cup {YALC_DEFAULT_STR_PREC}, null \in BOOLEAN :
        /\ sl = IF null
                THEN [pc |-> "start", bytes |-> <<>>, str_ptr |-> 0, length |-> 0,
                      maxlen |-> maxlen, ret |-> 0]
                ELSE [pc |-> "start", bytes |-> Place(StrOf(length), off, fill),
                      str_ptr |-> WORD_SIZE + off, length |-> length,
                      maxlen |-> maxlen, ret |-> 0]
        /\ hs = <<>> /\ mem = <<>> /\ console = <<>> /\ results = {}
        /\ printf_lock = 0
        /\ ryu = NoHarness /\ ita = NoHarness /\ fo = NoHarness
        /\ heap = NoHarness /\ pa = NoHarness

StrnlenCall ==
    /\ sl.pc = "start"
    /\ sl' = [sl EXCEPT !.pc = "done",
                        !.ret = strnlen_s(sl.bytes, sl.str_ptr, sl.maxlen)]
    /\ UNCHANGED <<hs, printf_lock, console, mem, results, ryu, ita, fo, heap, pa>>

StrnlenNext == StrnlenCall

SpecStrnlen == StrnlenInit /\ [][StrnlenNext]_vars

\* C16: strnlen(ptr, max) is the smaller of the string's length and max for a
\* pointer that is not null, and 0 for the null pointer, whatever max is.
C16_StrnlenMin ==
    sl.pc = "done" =>
        sl.ret = IF sl.str_ptr = 0 THEN 0 ELSE MinOf(sl.length, sl.maxlen)

-----------------------------------------------------------------------------
(* The allocator in use (SpecAlloc): up to MaxOps calls of malloc, realloc *)
(* and free, each on the null pointer or on an allocation that is live.    *)
(* live lists the live allocations, oldest first, as the caller knows      *)
(* them; before and op record the statics before the last call and the     *)
(* call itself.                                                            *)

MaxOps == 4

AllocSizes ==
    { SizeT(0), SizeT(1), SizeT(8), SizeT(24), SizeT(100), SIZE_MAX,
      USubN(SIZE_MAX, SizeT(8), 8) }
\* what a word of ram never written may hold
JunkWords == { SizeT(0), SIZE_MAX }

NoOp == [name |-> "none", ptr |-> SizeT(0), size |-> SizeT(0), result |-> SizeT(0)]

AllocHarnessInit ==
    /\ heap = [pc |-> "run", al |-> AllocInit, live |-> <<>>, calls |-> 0,
               before |-> AllocInit, was_live |-> <<>>, op |-> NoOp, prev |-> NoOp]
    /\ hs = <<>> /\ mem = <<>> /\ console = <<>> /\ results = {}
    /\ printf_lock = 0
    /\ ryu = NoHarness /\ ita = NoHarness /\ fo = NoHarness
    /\ sl = NoHarness /\ pa = NoHarness

Top(live) == IF live = <<>> THEN SizeT(0) ELSE live[Len(live)]
Pointers(live) == {SizeT(0)} \cup {live[k] : k \in 1..Len(live)}

\* the caller's list after a call: a new allocation joins it, the newest
\* one leaves it when handed to free (or to realloc with size 0)
LiveAfter(live, ptr, size, r) ==
    IF r.aborted THEN live
    ELSE IF UIsZero(ptr)
    THEN (IF UIsZero(r.result) THEN live ELSE Append(live, r.result))
    ELSE IF UIsZero(size) /\ ptr = Top(live)
    THEN SubSeq(live, 1, Len(live) - 1)
    ELSE live

Called(name, ptr, size, r) ==
    /\ heap' = [pc |-> IF r.aborted THEN "aborted" ELSE "run",
                al |-> r.al,
                live |-> LiveAfter(heap.live, ptr, size, r),
                calls |-> heap.calls + 1,
                before |-> heap.al, was_live |-> heap.live,
                op |-> [name |-> name, ptr |-> ptr, size |-> size, result |-> r.result],
                prev |-> heap.op]
    /\ UNCHANGED <<hs, printf_lock, console, mem, results, ryu, ita, fo, sl, pa>>

Malloc ==
    /\ heap.pc = "run" /\ heap.calls < MaxOps
    /\ \E size \in AllocSizes, junk \in JunkWords :
           Called("malloc", SizeT(0), size, malloc(heap.al, size, junk))

Realloc ==
    /\ heap.pc = "run" /\ heap.calls < MaxOps
    /\ \E ptr \in Pointers(heap.live), size \in AllocSizes, junk \in JunkWords :
           Called("realloc", ptr, size, realloc(heap.al, ptr, size, junk))

Free ==
    /\ heap.pc = "run" /\ heap.calls < MaxOps
    /\ \E ptr \in Pointers(heap.live), junk \in JunkWords :
           Called("free", ptr, SizeT(0), free(heap.al, ptr, junk))

AllocNext == Malloc \/ Realloc \/ Free

SpecAlloc == AllocHarnessInit /\ [][AllocNext]_vars

\* where the heap ends: last_alloc_end, or the heap's start before first use
LastEnd(al) == IF UIsZero(al.last_alloc_end) THEN stack_start ELSE al.last_alloc_end
HeapEnd(al) == IF UIsZero(al.heap_end) THEN ram_end ELSE al.heap_end

SameHeap(a, b) ==
    /\ LastEnd(a) = LastEnd(b)
    /\ a.total_alloc_size = b.total_alloc_size
    /\ a.alloc_count = b.alloc_count

\* start + size rounded up to the alignment + the metadata word, computed
\* without wrapping, is within the heap
EndOf(start, size) ==
    UAddN(UAddN(start, ClearLow(UAddN(size, SizeT(ALLOC_ALIGN - 1), 9)), 10),
          SizeT(ALLOC_ALIGN), 10)
HasRoom(al, start, size) == ULeq(EndOf(start, size), HeapEnd(al))

\* the last call was free(p) or realloc(p, n) on the newest live allocation
OnTop(op) == heap.was_live # <<>> /\ op.ptr = Top(heap.was_live)
FreeTop == heap.op.name = "free" /\ OnTop(heap.op)
FreeOther == heap.op.name = "free" /\ ~OnTop(heap.op)
ReallocTop == heap.op.name = "realloc" /\ OnTop(heap.op) /\ ~UIsZero(heap.op.size)
NewAlloc == heap.op.name = "malloc" /\ ~UIsZero(heap.op.size)

\* free of the newest allocation rewinds the heap to its start
C17_FreeTopRewinds ==
    FreeTop => (heap.pc = "run" /\ LastEnd(heap.al) = heap.op.ptr
                /\ heap.al.alloc_count = heap.before.alloc_count - 1)
\* the malloc after it gets the same address, if it gets any
C17_MallocReuses ==
    (NewAlloc /\ heap.prev.name = "free" /\ LastEnd(heap.before) = heap.prev.ptr
     /\ ~UIsZero(heap.prev.ptr))
        => (IF HasRoom(heap.before, heap.prev.ptr, heap.op.size)
            THEN heap.op.result = heap.prev.ptr ELSE UIsZero(heap.op.result))
\* free of any other pointer changes nothing
C17_FreeOtherKeeps ==
    FreeOther => (heap.pc = "run" /\ SameHeap(heap.al, heap.before))
\* realloc of the newest allocation keeps its address
C17_ReallocTopStays ==
    (ReallocTop /\ HasRoom(heap.before, heap.op.ptr, heap.op.size))
        => (heap.pc = "run" /\ heap.op.result = heap.op.ptr)
\* a malloc or realloc that does not fit returns NULL and changes nothing
C17_NoFitKeeps ==
    /\ (ReallocTop /\ ~HasRoom(heap.before, heap.op.ptr, heap.op.size))
           => (heap.pc = "run" /\ UIsZero(heap.op.result)
               /\ SameHeap(heap.al, heap.before))
    /\ (NewAlloc /\ ~HasRoom(heap.before, LastEnd(heap.before), heap.op.size))
           => (heap.pc = "run" /\ UIsZero(heap.op.result)
               /\ SameHeap(heap.al, heap.before))

\* C17: the allocator is LIFO over every sequence of malloc, realloc and free
\* calls: free(p) rewinds the heap exactly if p is the newest live
\* allocation, and the next malloc then returns p; free of any other pointer
\* leaves last_alloc_end, total_alloc_size and alloc_count as they were;
\* realloc of the newest allocation returns its address; a realloc that does
\* not fit returns NULL and leaves the state as it was.
C17_StrictlyLifo ==
    /\ C17_FreeTopRewinds
    /\ C17_MallocReuses
    /\ C17_FreeOtherKeeps
    /\ C17_ReallocTopStays
    /\ C17_NoFitKeeps

-----------------------------------------------------------------------------
(* The parser on its own (SpecParse): one call of yalc_pf_parse_format on  *)
(* a directive that is the whole rest of the format text: '%', an optional *)
(* flag, width or precision, up to MaxMods length modifiers and, unless    *)
(* the text ends there, a conversion letter.                               *)

MaxMods == 3

ParsePres == { <<>>, Str(<<"5">>), Str(<<"-">>), Str(<<".", "3">>) }
\* the length modifiers
ParseMods ==
    { Str(<<"h">>), Str(<<"l">>), Str(<<"L">>), Str(<<"j">>), Str(<<"z">>),
      Str(<<"t">>), Str(<<"w", "3", "2">>), Str(<<"w", "f", "8">>) }
\* conversion letters; <<>> is a directive cut short by the end of the text
ParseConvs ==
    { <<>>, Str(<<"d">>), Str(<<"u">>), Str(<<"x">>), Str(<<"s">>), Str(<<"c">>),
      Str(<<"f">>), Str(<<"p">>) }
IntConvs == { Str(<<"d">>), Str(<<"u">>), Str(<<"x">>) }

RECURSIVE Flatten(_)
Flatten(ss) == IF ss = <<>> THEN <<>> ELSE Head(ss) \o Flatten(Tail(ss))

ParseHarnessInit ==
    \E pre \in ParsePres, n \in 0..MaxMods, conv \in ParseConvs :
      \E mods \in [1..n -> ParseMods] :
        /\ pa = [pc |-> "start", mods |-> mods, conv |-> conv,
                 fmt |-> ((Str(<<"%">>) \o pre) \o Flatten(mods)) \o conv,
                 va |-> VaList(<<>>, <<>>, <<>>),
                 ret |-> 0, fi |-> yalc_clear_fi]
        /\ hs = <<>> /\ mem = <<>> /\ console = <<>> /\ results = {}
        /\ printf_lock = 0
        /\ ryu = NoHarness /\ ita = NoHarness /\ fo = NoHarness
        /\ sl = NoHarness /\ heap = NoHarness

ParseResult(p, st) == [p EXCEPT !.pc = "done", !.ret = st.ret, !.fi = st.fi]

ParseCall ==
    /\ pa.pc = "start"
    /\ pa' = ParseResult(pa, yalc_pf_parse_format(pa.fmt, Len(pa.fmt), pa.va))
    /\ UNCHANGED <<hs, printf_lock, console, mem, results, ryu, ita, fo, sl, heap>>

ParseNext == ParseCall

SpecParse == ParseHarnessInit /\ [][ParseNext]_vars

\* C18: a successful parse leaves exactly one conversion-type bit in the
\* descriptor, and a directive that reaches the end of the format text
\* without a conversion letter is refused with a negative status.
C18_OneTypeOnSuccess ==
    pa.pc = "done" =>
        /\ pa.ret >= 0 => Cardinality(pa.fi.flags \cap TFLAG_MASK) = 1
        /\ pa.conv = <<>> => pa.ret < 0

\* how many of the directive's length modifiers are the letter m
CountMod(mods, m) == Cardinality({k \in DOMAIN mods : mods[k] = Str(<<m>>)})

\* C19: before an integer conversion, "hh" alone yields half-half and "ll"
\* alone long-long, while a third h, a third l or any mix of h and l fails
\* with -EINVAL.
C19_RepeatedHalfLong ==
    (pa.pc = "done" /\ pa.conv \in IntConvs) =>
        LET nh == CountMod(pa.mods, "h")
            nl == CountMod(pa.mods, "l")
        IN  /\ (nh = 2 /\ Len(pa.mods) = 2) =>
                  (pa.ret >= 0 /\ Has(pa.fi.flags, LFLAG_HALF_HALF))
            /\ (nl = 2 /\ Len(pa.mods) = 2) =>
                  (pa.ret >= 0 /\ Has(pa.fi.flags, LFLAG_LONG_LONG))
            /\ (nh >= 3 \/ nl >= 3 \/ (nh >= 1 /\ nl >= 1)) => pa.ret = 0 - EINVAL

\* the modifiers that stand for a whole length on their own
Exclusive(m) == m \notin {Str(<<"h">>), Str(<<"l">>)}

\* C20: before an integer conversion, a directive that holds L, j, z, t,
\* w<N> or wf<N> and one more length modifier, in either order, fails with
\* -EINVAL.
C20_ExclusiveModifiers ==
    (pa.pc = "done" /\ pa.conv \in IntConvs) =>
        ((Len(pa.mods) >= 2 /\ \E k \in DOMAIN pa.mods : Exclusive(pa.mods[k]))
            => pa.ret = 0 - EINVAL)

-----------------------------------------------------------------------------
(* Decimal conversion on its own (SpecRyu): one call of                    *)
(* yalc_double_to_decimal on the exponent and significand fields of a      *)
(* finite non-zero binary64.  A call that runs into undefined behaviour    *)
(* either faults or returns some unpredictable pair.                       *)

\* biased exponents: subnormals, the smallest normals, values around one,
\* integers, the exponents next to 2^53, 0x483, large ones, the largest
RyuExponents ==
    {0, 1, 2, 512, 1019, 1022, 1023, 1024, 1026, 1050, 1074, 1075, 1076,
     1077, 1078, 1079, 1080, 1081, 1100, 1155, 1500, 2046}

\* 52-bit significand fields: 0, 1, 2^50, 2^51, 2^51 + 1, 0x0F0CF064DD592,
\* 0x999999999999A, 2^52 - 1
RyuSignificands ==
    {UFix(<<>>, 8), SizeT(1), UFix(UDec(0, 1125899, 906842624), 8),
     UFix(UDec(0, 2251799, 813685248), 8), UFix(UDec(0, 2251799, 813685249), 8),
     UFix(UDec(0, 264771, 954660754), 8), UFix(UDec(0, 2702159, 776422298), 8),
     UFix(UDec(0, 4503599, 627370495), 8)}

RyuInit ==
    \E exponent_biased \in RyuExponents, significand \in RyuSignificands :
        /\ exponent_biased # 0 \/ ~UIsZero(significand)
        /\ ryu = [pc |-> "start", exponent_biased |-> exponent_biased,
                  significand |-> significand,
                  fraction10 |-> SizeT(0), exponent10 |-> 0]
        /\ hs = <<>> /\ mem = <<>> /\ console = <<>> /\ results = {}
        /\ printf_lock = 0
        /\ ita = NoHarness
        /\ sl = NoHarness
        /\ heap = NoHarness
        /\ pa = NoHarness
        /\ fo = NoHarness

\* pairs standing for the unpredictable contents of *fraction10, *exponent10
Unpredictable ==
    {Decimal(SizeT(f), x) : f \in {0, 1}, x \in {0 - 1, 0}}

\* the states the call can end in
RyuOutcomes(st, r) ==
    IF r.ub
    THEN {[st EXCEPT !.pc = "fault"]}
         \cup {[st EXCEPT !.pc = "done", !.fraction10 = g.fraction10,
                          !.exponent10 = g.exponent10] : g \in Unpredictable}
    ELSE {[st EXCEPT !.pc = "done", !.fraction10 = r.fraction10,
                     !.exponent10 = r.exponent10]}

RyuCall ==
    /\ ryu.pc = "start"
    /\ ryu' \in RyuOutcomes(ryu, yalc_double_to_decimal(ryu.exponent_biased,
                                                         ryu.significand))
    /\ UNCHANGED <<hs, printf_lock, console, mem, results, ita, fo, sl, heap, pa>>

RyuNext == RyuCall

SpecRyu == RyuInit /\ [][RyuNext]_vars

\* 5^k, by splitting the exponent in halves
RECURSIVE Pow5U(_)
Pow5U(k) ==
    IF k <= 9 THEN UFromInt(5 ^ k)
    ELSE UMul(Pow5U(k \div 2), Pow5U(k - (k \div 2)))
\* x * 5^k
Times5(x, k) == IF k = 0 THEN x ELSE UMul(x, Pow5U(k))

\* f * 10^x and n * 2^e brought to a common integer scale
DecimalScaled(f, x, e) == Times5(UShl(f, MaxOf(x - e, 0)), MaxOf(x, 0))
BinaryScaled(n, x, e) == Times5(UShl(n, MaxOf(e - x, 0)), MaxOf(0 - x, 0))
\* f * 10^x < n * 2^e and f * 10^x > n * 2^e
DecimalBelow(f, x, n, e) == ULess(DecimalScaled(f, x, e), BinaryScaled(n, x, e))
DecimalAbove(f, x, n, e) == ULess(BinaryScaled(n, x, e), DecimalScaled(f, x, e))

\* the binary64 with the given fields is m * 2^e
BinaryFraction(exponent_biased, significand) ==
    IF exponent_biased = 0 THEN significand
    ELSE UAdd(significand, UShl(<<1>>, 52))
BinaryExponent(exponent_biased) ==
    IF exponent_biased = 0 THEN 0 - 1074 ELSE exponent_biased - 1075

\* f * 10^x reads back, under round-to-nearest ties-to-even, as the binary64
\* with the given fields: it lies between the midpoints to the two
\* neighbours (the lower neighbour is at half the distance when the
\* significand field is 0), a midpoint itself only when m is even
ParsesBack(f, x, exponent_biased, significand) ==
    LET m    == BinaryFraction(exponent_biased, significand)
        e    == BinaryExponent(exponent_biased)
        low  == USubN(UMulSmall(m, 4),
                      IF UIsZero(significand) /\ exponent_biased > 1
                      THEN <<1>> ELSE <<2>>, 8)
        high == UAdd(UMulSmall(m, 4), <<2>>)
        even == UBit(m, 0) = 0
    IN  /\ IF even THEN ~DecimalBelow(f, x, low, e - 2)
                   ELSE DecimalAbove(f, x, low, e - 2)
        /\ IF even THEN ~DecimalAbove(f, x, high, e - 2)
                   ELSE DecimalBelow(f, x, high, e - 2)

\* C8: for every finite non-zero binary64 the call returns, and the decimal
\* fraction10 * 10^exponent10 it returns reads back as exactly the input
\* and is the shortest that does: neither fraction10 without its last
\* digit, nor that plus one, at exponent10 + 1 reads back as the input.
C8_RoundTripShortest ==
    ryu.pc \in {"done", "fault"} =>
        /\ ryu.pc = "done"
        /\ ParsesBack(ryu.fraction10, ryu.exponent10,
                      ryu.exponent_biased, ryu.significand)
        /\ ~ParsesBack(Div10(ryu.fraction10), ryu.exponent10 + 1,
                       ryu.exponent_biased, ryu.significand)
        /\ ~ParsesBack(UAdd(Div10(ryu.fraction10), <<1>>), ryu.exponent10 + 1,
                       ryu.exponent_biased, ryu.significand)

-----------------------------------------------------------------------------
(* Literal width and precision on their own: SpecDigits parses a directive *)
(* %<digits>d or %.<digits>d whose digit sequence lies around INT_MAX.     *)

\* how many zeros may follow the sequence
MaxZeros == 1

IntMaxText == DecText(INT_MAX)
\* what the sequences start with: the leading digits of INT_MAX, and three
\* values above INT_MAX / 10
DigitHeads ==
    {SubSeq(IntMaxText, 1, n) : n \in 0..(Len(IntMaxText) - 1)}
    \cup { Str(<<"2", "1", "4", "7", "4", "8", "3", "6", "5">>),
           Str(<<"4", "2", "9", "4", "9", "6", "7", "2", "9">>),
           Str(<<"9", "9", "9", "9", "9", "9", "9", "9", "9">>) }
\* a head, one more digit, and zeros; no sequence starts with 0
DigitTexts ==
    { x[1] \o <<Ch("0") + x[2]>> \o [k \in 1..x[3] |-> Ch("0")] :
        x \in { y \in DigitHeads \X (0..9) \X (0..MaxZeros) : y[1] # <<>> \/ y[2] # 0 } }

DigitsInit ==
    /\ hs = <<>>
    /\ printf_lock = 0
    /\ console = <<>>
    /\ mem = <<>>
    /\ results = {}
    /\ ryu = NoHarness
    /\ ita = NoHarness
    /\ fo = NoHarness
    /\ sl = NoHarness
    /\ heap = NoHarness
    /\ \E t \in DigitTexts, point \in {<<>>, Str(<<".">>)} :
          pa = [pc |-> "start", digits |-> t, point |-> point,
                fmt |-> Str(<<"%">>) \o point \o t \o Str(<<"d">>),
                va |-> VaList(<<>>, <<>>, <<>>),
                ret |-> 0, fi |-> yalc_clear_fi]

SpecDigits == DigitsInit /\ [][ParseNext]_vars

\* the decimal value of the first k digits, as an unbounded number
RECURSIVE DecimalOf(_, _)
DecimalOf(text, k) ==
    IF k = 0 THEN <<>>
    ELSE UAdd(UMulSmall(DecimalOf(text, k - 1), 10), UFromInt(text[k] - Ch("0")))

InIntRange(text) == ULeq(DecimalOf(text, Len(text)), UFromInt(INT_MAX))
\* the field the digits accumulate in
DigitsField(p) == IF p.point = <<>> THEN p.fi.width ELSE p.fi.precision

\* C21: a digit sequence above INT_MAX makes the parser fail with EINVAL; a
\* sequence up to INT_MAX is accepted with exactly its value; the field the
\* digits accumulate in never wraps below zero.
C21_DigitsNeverWrap ==
    pa.pc = "done" =>
        /\ DigitsField(pa) >= 0
        /\ ~InIntRange(pa.digits) => pa.ret = 0 - EINVAL
        /\ InIntRange(pa.digits) =>
              (pa.ret >= 0 /\ DigitsField(pa) = UToInt(DecimalOf(pa.digits, Len(pa.digits))))

-----------------------------------------------------------------------------
(* Flags against precision: SpecFlags parses directives built from flag    *)
(* characters, a width and a precision, either of which may be a *, and a  *)
(* conversion letter.                                                      *)

MaxFlags == 2
FlagChars == { Ch("0"), Ch("-"), Ch("+"), Ch("#"), Ch(" ") }
FlagWidths == { <<>>, Str(<<"5">>), Str(<<"*">>) }
FlagPrecs == { <<>>, Str(<<".">>), Str(<<".", "0">>), Str(<<".", "3">>), Str(<<".", "*">>) }
FlagConvs ==
    { Ch("d"), Ch("i"), Ch("u"), Ch("x"), Ch("X"), Ch("o"), Ch("b"), Ch("p"),
      Ch("f"), Ch("e"), Ch("g"), Ch("a"), Ch("s"), Ch("c") }
\* what a * may find in the argument list
StarArgs == { 0 - 4, 0, 6 }
StarOf(text, arg) == IF HasChar(text, Ch("*")) THEN <<I64(arg)>> ELSE <<>>
ArgsFor(text) == IF HasChar(text, Ch("*")) THEN StarArgs ELSE {0}

FlagsInit ==
    /\ hs = <<>>
    /\ printf_lock = 0
    /\ console = <<>>
    /\ mem = <<>>
    /\ results = {}
    /\ ryu = NoHarness
    /\ ita = NoHarness
    /\ fo = NoHarness
    /\ sl = NoHarness
    /\ heap = NoHarness
    /\ \E n \in 0..MaxFlags, width \in FlagWidths, prec \in FlagPrecs, conv \in FlagConvs :
         \E flags \in [1..n -> FlagChars], wa \in ArgsFor(width), pr \in ArgsFor(prec) :
            pa = [pc |-> "start", flags |-> flags, width |-> width, prec |-> prec,
                  conv |-> conv, wa |-> wa, pr |-> pr,
                  fmt |-> (((Str(<<"%">>) \o flags) \o width) \o prec) \o <<conv>>,
                  va |-> VaList(StarOf(width, wa) \o StarOf(prec, pr), <<>>, <<>>),
                  ret |-> 0, fi |-> yalc_clear_fi]

SpecFlags == FlagsInit /\ [][ParseNext]_vars

\* what the directive asks for
AsksZero(p) == HasChar(p.flags, Ch("0"))
AsksLeft(p) == HasChar(p.flags, Ch("-")) \/ (p.width = Str(<<"*">>) /\ p.wa < 0)
AsksPrecision(p) == p.prec # <<>> /\ ~(p.prec = Str(<<".", "*">>) /\ p.pr < 0)

\* C22: after a successful parse zero-pad never stands with left-adjust, nor
\* with has-precision on an integer conversion; on a float conversion with a
\* precision (and no left-adjust) the zero-pad that was asked for is kept.
C22_ZeroPadCleared ==
    (pa.pc = "done" /\ pa.ret >= 0) =>
        /\ ~(Has(pa.fi.flags, FFLAG_ZERO_PAD) /\ Has(pa.fi.flags, FFLAG_LEFT_ADJ))
        /\ Has(pa.fi.flags, TFLAG_INT) =>
              ~(Has(pa.fi.flags, FFLAG_ZERO_PAD) /\ Has(pa.fi.flags, SFLAG_HAS_PREC))
        /\ (Has(pa.fi.flags, TFLAG_DOUBLE) /\ AsksZero(pa) /\ AsksPrecision(pa)
            /\ ~AsksLeft(pa)) =>
              (Has(pa.fi.flags, FFLAG_ZERO_PAD) /\ Has(pa.fi.flags, SFLAG_HAS_PREC))

\* an integer directive with 0 and a precision, and no -, was parsed and lost
\* its zero-pad
C22_Witness ==
    /\ pa.pc = "done" /\ pa.ret >= 0
    /\ Has(pa.fi.flags, TFLAG_INT) /\ AsksZero(pa) /\ AsksPrecision(pa) /\ ~AsksLeft(pa)
    /\ ~Has(pa.fi.flags, FFLAG_ZERO_PAD)

-----------------------------------------------------------------------------
(* Width and precision from the argument list (SpecStar): a directive with *)
(* a * for its width, its precision or both is rendered next to the        *)
(* directive that spells the same width and precision out, each followed   *)
(* by a %d that prints the argument after the converted one.               *)

\* what the * of a width finds: the value, its register image, and the text
\* of its magnitude
StarWidths ==
    { [v |-> 0 - 7, image |-> I64(0 - 7), abs |-> Str(<<"7">>)],
      [v |-> 0 - 1, image |-> I64(0 - 1), abs |-> Str(<<"1">>)],
      [v |-> 0, image |-> I64(0), abs |-> <<>>],
      [v |-> 3, image |-> I64(3), abs |-> Str(<<"3">>)],
      [v |-> (0 - INT_MAX) - 1,
       image |-> [k \in 1..8 |-> IF k < 4 THEN 0 ELSE IF k = 4 THEN 128 ELSE 255],
       abs |-> Str(<<"2", "1", "4", "7", "4", "8", "3", "6", "4", "8">>)] }
StarPrecs == { 0 - 3, 0 - 1, 0, 2 }
NoStar == [v |-> 0, image |-> <<>>, abs |-> <<>>]

StarFlags == { <<>>, Str(<<"0">>), Str(<<"+">>), Str(<<"#">>) }
\* conversion letters with the argument each converts
StarConvs ==
    { [conv |-> Ch("d"), va |-> VaList(<<I64(42)>>, <<>>, <<>>)],
      [conv |-> Ch("d"), va |-> VaList(<<I64(0 - 42)>>, <<>>, <<>>)],
      [conv |-> Ch("i"), va |-> VaList(<<I64(0)>>, <<>>, <<>>)],
      [conv |-> Ch("x"), va |-> VaList(<<I64(255)>>, <<>>, <<>>)],
      [conv |-> Ch("o"), va |-> VaList(<<I64(8)>>, <<>>, <<>>)],
      [conv |-> Ch("c"), va |-> VaList(<<I64(65)>>, <<>>, <<>>)],
      [conv |-> Ch("s"), va |-> VaList(<<>>, <<Str(<<"h", "e", "l", "l", "o">>)>>, <<>>)],
      [conv |-> Ch("f"), va |-> VaList(<<>>, <<>>, <<<<0, 0, 0, 0, 0, 0, 248, 63>>>>)],
      [conv |-> Ch("e"), va |-> VaList(<<>>, <<>>, <<<<88, 57, 180, 200, 214, 28, 200, 64>>>>)],
      [conv |-> Ch("g"), va |-> VaList(<<>>, <<>>, <<<<45, 67, 28, 235, 226, 54, 26, 63>>>>)] }

\* the argument the trailing %d prints
NextArg == I64(9)
Trailer == Str(<<"|", "%", "d">>)

\* the directive with * and the argument list it is called with
StarFmt(c) ==
    ((((Str(<<"%">>) \o c.flags) \o (IF c.wstar THEN Str(<<"*">>) ELSE <<>>))
      \o (IF c.pstar THEN Str(<<".", "*">>) ELSE <<>>)) \o <<c.conv>>) \o Trailer
StarVa(c) ==
    [c.va EXCEPT !.ints = (((IF c.wstar THEN <<c.w.image>> ELSE <<>>)
                            \o (IF c.pstar THEN <<I64(c.p)>> ELSE <<>>)) \o @)
                          \o <<NextArg>>]

\* the same directive spelled out: - and the magnitude for a negative width,
\* no precision at all for a negative precision
PlainFmt(c) ==
    ((((Str(<<"%">>) \o (IF c.wstar /\ c.w.v < 0 THEN Str(<<"-">>) ELSE <<>>)) \o c.flags)
      \o (IF c.wstar THEN c.w.abs ELSE <<>>))
      \o (IF c.pstar /\ c.p >= 0 THEN <<Ch(".")>> \o DecText(c.p) ELSE <<>>))
    \o (<<c.conv>> \o Trailer)
PlainVa(c) == [c.va EXCEPT !.ints = @ \o <<NextArg>>]

StarInit ==
    /\ hs = <<>>
    /\ printf_lock = 0
    /\ console = <<>>
    /\ mem = <<>>
    /\ results = {}
    /\ ryu = NoHarness
    /\ ita = NoHarness
    /\ sl = NoHarness
    /\ heap = NoHarness
    /\ pa = NoHarness
    /\ \E f \in StarFlags, a \in StarConvs, wstar \in BOOLEAN, pstar \in BOOLEAN :
         \E w \in (IF wstar THEN StarWidths ELSE {NoStar}),
            p \in (IF pstar THEN StarPrecs ELSE {0}) :
            /\ wstar \/ pstar
            /\ fo = [pc |-> "start", flags |-> f, conv |-> a.conv, va |-> a.va,
                     wstar |-> wstar, w |-> w, pstar |-> pstar, p |-> p,
                     fi |-> yalc_clear_fi, star |-> <<>>, plain |-> <<>>]

\* both printf calls, and the descriptor the parser builds for the * form
StarRender ==
    /\ fo.pc = "start"
    /\ fo' = [fo EXCEPT
                !.pc = "done",
                !.fi = yalc_pf_parse_format(StarFmt(fo), Len(StarFmt(fo)), StarVa(fo)).fi,
                !.star = XText(StarFmt(fo), 0, StarVa(fo)),
                !.plain = XText(PlainFmt(fo), 0, PlainVa(fo))]
    /\ UNCHANGED <<hs, printf_lock, console, mem, results, ryu, ita, sl, heap, pa>>

StarNext == StarRender

SpecStar == StarInit /\ [][StarNext]_vars

\* C23: a negative * width is the - flag with the magnitude as width, a
\* negative * precision is no precision, and each * takes one int argument
\* ahead of the converted one: the descriptor has left-adjust and the width
\* |w|, and the output is that of the directive spelled out.
C23_StarAsSpelledOut ==
    fo.pc = "done" =>
        /\ (fo.wstar /\ fo.w.v < 0) =>
              /\ Has(fo.fi.flags, FFLAG_LEFT_ADJ)
              /\ fo.fi.width >= 0
              /\ fo.fi.width = 0 - fo.w.v
        /\ (fo.pstar /\ fo.p < 0) => ~Has(fo.fi.flags, SFLAG_HAS_PREC)
        /\ fo.star = fo.plain

\* the same for every * width whose magnitude is an int
C23_StarInRange ==
    (fo.pc = "done" /\ fo.w.v >= 0 - INT_MAX) =>
        /\ (fo.wstar /\ fo.w.v < 0) =>
              (Has(fo.fi.flags, FFLAG_LEFT_ADJ) /\ fo.fi.width = 0 - fo.w.v)
        /\ (fo.pstar /\ fo.p < 0) => ~Has(fo.fi.flags, SFLAG_HAS_PREC)
        /\ fo.star = fo.plain

-----------------------------------------------------------------------------
(* Length modifiers (SpecLength): one integer directive with a length      *)
(* modifier is rendered next to the ll directive given the argument        *)
(* already cut to the modifier's width and extended again.                 *)

\* the modifiers with the width each names
LengthMods ==
    { [text |-> Str(<<"h", "h">>), bits |-> 8],
      [text |-> Str(<<"h">>), bits |-> 16],
      [text |-> <<>>, bits |-> 32],
      [text |-> Str(<<"l">>), bits |-> 64],
      [text |-> Str(<<"l", "l">>), bits |-> 64],
      [text |-> Str(<<"j">>), bits |-> 64],
      [text |-> Str(<<"z">>), bits |-> 64],
      [text |-> Str(<<"t">>), bits |-> 64],
      [text |-> Str(<<"w", "8">>), bits |-> 8],
      [text |-> Str(<<"w", "1", "6">>), bits |-> 16],
      [text |-> Str(<<"w", "3", "2">>), bits |-> 32],
      [text |-> Str(<<"w", "6", "4">>), bits |-> 64] }
LengthConvs == { Ch("d"), Ch("i"), Ch("u"), Ch("x"), Ch("o") }
\* register images: 0, 128, 300, 511, 65535, 70000, 2^31, 2^32 + 5, -129, -1
LengthArgs ==
    { I64(0), I64(128), I64(300), I64(511), I64(65535), I64(70000),
      <<0, 0, 0, 128, 0, 0, 0, 0>>, <<5, 0, 0, 0, 1, 0, 0, 0>>, I64(0 - 129), I64(0 - 1) }

LengthSigned(conv) == conv \in { Ch("d"), Ch("i") }
LengthFmt(mod, conv) == (Str(<<"%">>) \o mod) \o <<conv>>
\* the argument as the claim has it reach the renderer
Reduced(arg, bits, conv) ==
    IF LengthSigned(conv) THEN SignExtend(arg, bits \div 8) ELSE ZeroExtend(arg, bits \div 8)

LengthInit ==
    /\ hs = <<>>
    /\ printf_lock = 0
    /\ console = <<>>
    /\ mem = <<>>
    /\ results = {}
    /\ ryu = NoHarness
    /\ ita = NoHarness
    /\ sl = NoHarness
    /\ heap = NoHarness
    /\ pa = NoHarness
    /\ \E m \in LengthMods, conv \in LengthConvs, arg \in LengthArgs :
         fo = [pc |-> "start", mod |-> m.text, bits |-> m.bits, conv |-> conv, arg |-> arg,
               out |-> <<>>, widest |-> <<>>]

LengthRender ==
    /\ fo.pc = "start"
    /\ fo' = [fo EXCEPT
                !.pc = "done",
                !.out = XText(LengthFmt(fo.mod, fo.conv), 0, VaList(<<fo.arg>>, <<>>, <<>>)),
                !.widest = XText(LengthFmt(Str(<<"l", "l">>), fo.conv), 0,
                                 VaList(<<Reduced(fo.arg, fo.bits, fo.conv)>>, <<>>, <<>>))]
    /\ UNCHANGED <<hs, printf_lock, console, mem, results, ryu, ita, sl, heap, pa>>

LengthNext == LengthRender

SpecLength == LengthInit /\ [][LengthNext]_vars

\* C24: the integer argument is cut to the width its length modifier names
\* (hh 8, h 16, none 32, l ll j z t 64, wN N bits) and sign-extended for a
\* signed, zero-extended for an unsigned conversion before it is rendered:
\* the output is that of the widest type given the value so reduced.
C24_ReducedToModifierWidth ==
    fo.pc = "done" => fo.out = fo.widest

\* the same for every modifier but hh
C24_ReducedUnlessHalfHalf ==
    (fo.pc = "done" /\ fo.mod # Str(<<"h", "h">>)) => fo.out = fo.widest

-----------------------------------------------------------------------------
(* Signed decimals of the widest type (SpecSigned): a value given by its   *)
(* sign and magnitude is printed by %d or %i with a 64-bit length modifier *)
(* and the sign flags.                                                     *)

\* magnitudes up to 2^63: 0, 1, 9, 10, 42, 99, 100, 2^31 - 1, 2^31, 2^32,
\* 10^18, 2^63 - 1 and 2^63
SignedMagnitudes ==
    { UFromInt(0), UFromInt(1), UFromInt(9), UFromInt(10), UFromInt(42), UFromInt(99),
      UFromInt(100), UFromInt(INT_MAX), <<0, 0, 0, 128>>, <<0, 0, 0, 0, 1>>,
      UDec(1, 0, 0), <<255, 255, 255, 255, 255, 255, 255, 127>>,
      <<0, 0, 0, 0, 0, 0, 0, 128>> }
\* INTMAX_MIN has the magnitude 2^63; no positive value has it, and 0 has no sign
SignedValues ==
    { v \in [neg : BOOLEAN, mag : SignedMagnitudes] :
        /\ v.neg => ~UIsZero(v.mag)
        /\ ~v.neg => Len(v.mag) < 8 \/ v.mag[8] < 128 }
SignedFlags == { <<>>, Str(<<"+">>), Str(<<" ">>), Str(<<"+", " ">>), Str(<<" ", "+">>) }
SignedMods == { Str(<<"l", "l">>), Str(<<"j">>), Str(<<"l">>), Str(<<"t">>) }
SignedConvs == { Ch("d"), Ch("i") }

\* the register image of the value
SignedImage(v) == IF v.neg THEN USubN(<<>>, v.mag, 8) ELSE UFix(v.mag, 8)

SignedInit ==
    /\ hs = <<>>
    /\ printf_lock = 0
    /\ console = <<>>
    /\ mem = <<>>
    /\ results = {}
    /\ ryu = NoHarness
    /\ ita = NoHarness
    /\ sl = NoHarness
    /\ heap = NoHarness
    /\ pa = NoHarness
    /\ \E v \in SignedValues, f \in SignedFlags, m \in SignedMods, conv \in SignedConvs :
         fo = [pc |-> "start", v |-> v, flags |-> f,
               fmt |-> ((Str(<<"%">>) \o f) \o m) \o <<conv>>, out |-> <<>>]

SignedRender ==
    /\ fo.pc = "start"
    /\ fo' = [fo EXCEPT !.pc = "done",
                        !.out = XText(fo.fmt, 0, VaList(<<SignedImage(fo.v)>>, <<>>, <<>>))]
    /\ UNCHANGED <<hs, printf_lock, console, mem, results, ryu, ita, sl, heap, pa>>

SignedNext == SignedRender

SpecSigned == SignedInit /\ [][SignedNext]_vars

\* the decimal digits of a magnitude, most significant first
RECURSIVE MagnitudeText(_)
MagnitudeText(m) ==
    (IF ULess(m, UFromInt(10)) THEN <<>> ELSE MagnitudeText(UDivSmall(m, 10)))
    \o <<Ch("0") + UModSmall(m, 10)>>

SignChar(v, flags) ==
    IF v.neg THEN <<Ch("-")>>
    ELSE IF HasChar(flags, Ch("+")) THEN <<Ch("+")>>
    ELSE IF HasChar(flags, Ch(" ")) THEN <<Ch(" ")>>
    ELSE <<>>

\* C25: a signed decimal of the widest type, the minimum included, prints
\* the digits of its magnitude after - when negative, else after + with the
\* force-sign flag, else after a space with the space flag, else alone.
C25_SignThenMagnitude ==
    fo.pc = "done" => fo.out = SignChar(fo.v, fo.flags) \o MagnitudeText(fo.v.mag)

\* the minimum value was printed with all its digits
C25_Witness ==
    /\ fo.pc = "done"
    /\ fo.v = [neg |-> TRUE, mag |-> <<0, 0, 0, 0, 0, 0, 0, 128>>]
    /\ fo.out = Str(<<"-", "9", "2", "2", "3", "3", "7", "2", "0", "3", "6", "8", "5",
                      "4", "7", "7", "5", "8", "0", "8">>)

-----------------------------------------------------------------------------
(* Order of the fragments (SpecOrder): a numeric directive is rendered     *)
(* bare, without padding flag and width, and then with a padding flag and  *)
(* a width.                                                                *)

OrderPads == { <<>>, Str(<<"0">>), Str(<<"-">>) }
OrderFlags == { <<>>, Str(<<"+">>), Str(<<" ">>), Str(<<"#">>) }
OrderPrecs == { <<>>, Str(<<".", "0">>), Str(<<".", "3">>) }
OrderWidths == { 0, 4, 9, 14 }
\* the numeric arguments of SpecField, and 0.001 with %f
OrderArgs ==
    { a \in FieldArgs : a.conv \notin { Ch("c"), Ch("s") } }
    \cup { [conv |-> Ch("f"), va |-> VaList(<<>>, <<>>, <<<<252, 169, 241, 210, 77, 98, 80, 63>>>>)] }

OrderInit ==
    /\ hs = <<>>
    /\ printf_lock = 0
    /\ console = <<>>
    /\ mem = <<>>
    /\ results = {}
    /\ ryu = NoHarness
    /\ ita = NoHarness
    /\ sl = NoHarness
    /\ heap = NoHarness
    /\ pa = NoHarness
    /\ \E pad \in OrderPads, f \in OrderFlags, p \in OrderPrecs, a \in OrderArgs, w \in OrderWidths :
         fo = [pc |-> "start", pad |-> pad, flags |-> f, prec |-> p, conv |-> a.conv,
               va |-> a.va, w |-> w, content |-> <<>>, out |-> <<>>]

OrderFmt(c, pad, w) == DirectiveFmt([c EXCEPT !.flags = pad \o @], w)

OrderRender ==
    /\ fo.pc = "start"
    /\ fo' = [fo EXCEPT !.pc = "done",
                        !.content = XText(OrderFmt(fo, <<>>, 0), 0, fo.va),
                        !.out = XText(OrderFmt(fo, fo.pad, fo.w), 0, fo.va)]
    /\ UNCHANGED <<hs, printf_lock, console, mem, results, ryu, ita, sl, heap, pa>>

OrderNext == OrderRender

SpecOrder == OrderInit /\ [][OrderNext]_vars

RunOf(k, c) == [j \in 1..k |-> c]
OrderFloat(c) == c.conv \in { Ch("f"), Ch("e"), Ch("E"), Ch("g"), Ch("a") }
\* how many characters of the bare text are sign (floats), or sign or base
\* prefix (integers)
OrderLead(c) ==
    IF c.content # <<>> /\ c.content[1] \in { Ch("-"), Ch("+"), Ch(" ") } THEN 1
    ELSE IF /\ ~OrderFloat(c) /\ Len(c.content) >= 2 /\ c.content[1] = Ch("0")
            /\ c.content[2] \in { Ch("x"), Ch("b"), Ch("B") }
    THEN 2
    ELSE 0
\* the padding flag in force: the parser drops 0 from an integer directive
\* that has a precision
OrderZero(c) == c.pad = Str(<<"0">>) /\ (OrderFloat(c) \/ c.prec = <<>>)
OrderLeft(c) == c.pad = Str(<<"-">>)

\* C26: with left-adjust the content comes first and the spaces last; with
\* zero-pad the zero run stands between the sign (of a float) or the sign or
\* base prefix (of an integer) and the rest of the content; with neither the
\* spaces come first, so that the sign stands directly before the value.
C26_FragmentOrder ==
    fo.pc = "done" =>
        \E k \in 0..Len(fo.out) :
            IF OrderLeft(fo) THEN fo.out = fo.content \o RunOf(k, Ch(" "))
            ELSE IF OrderZero(fo)
            THEN fo.out = (SubSeq(fo.content, 1, OrderLead(fo)) \o RunOf(k, Ch("0")))
                          \o SubSeq(fo.content, OrderLead(fo) + 1, Len(fo.content))
            ELSE fo.out = RunOf(k, Ch(" ")) \o fo.content

\* the same for every case but a zero-padded one whose digits start with
\* zeroes that the precision or the position of the point supplies
C26_OrderUnlessZeroPad ==
    (fo.pc = "done" /\ ~OrderZero(fo)) =>
        \E k \in 0..Len(fo.out) :
            IF OrderLeft(fo) THEN fo.out = fo.content \o RunOf(k, Ch(" "))
            ELSE fo.out = RunOf(k, Ch(" ")) \o fo.content

-----------------------------------------------------------------------------
(* Trailing zeroes of g-form (SpecGForm): a finite non-zero double is      *)
(* printed by %g or %G with a precision, with and without the # flag.      *)

\* 1.5, 12.3, 100000.0, 0.0001, 1.2001, 0.10001, 0.00012001, 1004.0,
\* 1999.6, 10400000000.0, 12001000000.0, 1.2001e-07
GFormValues ==
    { <<0, 0, 0, 0, 0, 0, 248, 63>>, <<154, 153, 153, 153, 153, 153, 40, 64>>,
      <<0, 0, 0, 0, 0, 106, 248, 64>>, <<45, 67, 28, 235, 226, 54, 26, 63>>,
      <<164, 223, 190, 14, 156, 51, 243, 63>>, <<181, 224, 69, 95, 65, 154, 185, 63>>,
      <<237, 46, 204, 25, 188, 117, 31, 63>>, <<0, 0, 0, 0, 0, 96, 143, 64>>,
      <<102, 102, 102, 102, 102, 62, 159, 64>>, <<0, 0, 0, 64, 27, 95, 3, 66>>,
      <<0, 0, 0, 210, 133, 90, 6, 66>>, <<17, 239, 163, 31, 131, 27, 128, 62>> }
\* the precision as written, and the significant digits it asks for
GFormPrecs ==
    { [text |-> <<>>, digits |-> 6], [text |-> Str(<<".", "0">>), digits |-> 1],
      [text |-> Str(<<".", "1">>), digits |-> 1], [text |-> Str(<<".", "2">>), digits |-> 2],
      [text |-> Str(<<".", "3">>), digits |-> 3], [text |-> Str(<<".", "8">>), digits |-> 8] }
GFormFlags == { <<>>, Str(<<"#">>), Str(<<"+">>) }
GFormConvs == { Ch("g"), Ch("G") }

GFormInit ==
    /\ hs = <<>>
    /\ printf_lock = 0
    /\ console = <<>>
    /\ mem = <<>>
    /\ results = {}
    /\ ryu = NoHarness
    /\ ita = NoHarness
    /\ sl = NoHarness
    /\ heap = NoHarness
    /\ pa = NoHarness
    /\ \E v \in GFormValues, p \in GFormPrecs, f \in GFormFlags, conv \in GFormConvs :
         fo = [pc |-> "start", value |-> v, digits |-> p.digits, flags |-> f,
               fmt |-> ((Str(<<"%">>) \o f) \o p.text) \o <<conv>>, out |-> <<>>]

GFormRender ==
    /\ fo.pc = "start"
    /\ fo' = [fo EXCEPT !.pc = "done",
                        !.out = XText(fo.fmt, 0, VaList(<<>>, <<>>, <<fo.value>>))]
    /\ UNCHANGED <<hs, printf_lock, console, mem, results, ryu, ita, sl, heap, pa>>

GFormNext == GFormRender

SpecGForm == GFormInit /\ [][GFormNext]_vars

\* the text in front of the exponent
Mantissa(text) ==
    LET ends == { k \in 1..Len(text) : text[k] \in { Ch("e"), Ch("E") } }
    IN  IF ends = {} THEN text ELSE SubSeq(text, 1, (CHOOSE k \in ends : TRUE) - 1)
IsDigit(c) == c >= Ch("0") /\ c <= Ch("9")
\* digits from the first one that is not 0
SignificantDigits(text) ==
    LET first == { k \in 1..Len(text) : IsDigit(text[k]) /\ text[k] # Ch("0") }
    IN  IF first = {} THEN 0
        ELSE Cardinality({ k \in 1..Len(text) :
                             IsDigit(text[k]) /\ \E j \in first : j <= k })

\* C27: g-form of a finite non-zero value without the # flag never ends its
\* mantissa in a fractional 0 or in a bare point, whichever layout is chosen
\* and also after rounding to the precision; with # the zeroes are kept, so
\* the mantissa has a point and as many significant digits as the precision.
C27_TrailingZeroes ==
    fo.pc = "done" =>
        LET m == Mantissa(fo.out)
        IN  IF HasChar(fo.flags, Ch("#"))
            THEN HasChar(m, Ch(".")) /\ SignificantDigits(m) = fo.digits
            ELSE HasChar(m, Ch(".")) => m[Len(m)] \notin { Ch("0"), Ch(".") }

\* the same where the shortest digits already fit the precision
C27_TrimmedUnrounded ==
    (fo.pc = "done" /\ ~HasChar(fo.flags, Ch("#")) /\ fo.digits = 8) =>
        (HasChar(Mantissa(fo.out), Ch("."))
            => Mantissa(fo.out)[Len(Mantissa(fo.out))] \notin { Ch("0"), Ch(".") })

-----------------------------------------------------------------------------
(* Rounding in f-form (SpecFForm): a double whose shortest decimal digits  *)
(* and exponent are known is printed by %.Pf.                              *)

MaxPrec == 4
\* the image of the double with its shortest digits and decimal exponent:
\* 1.503, 1.2301, 2.5001, 12.345, 1.005, 99.995, 9.995, 1.45, 2.675, 1.25,
\* 12.5, 1.5, 0.9, 0.6, 0.009, 0.0999, 0.0996, 0.35, 0.045, 0.05, 0.5, 0.25,
\* 0.125, 0.095, 0.0095, 0.999999, 0.0001
FFormValues ==
    { [image |-> <<63, 53, 94, 186, 73, 12, 248, 63>>, digits |-> 1503, exp |-> 0 - 3],
      [image |-> <<31, 244, 108, 86, 125, 174, 243, 63>>, digits |-> 12301, exp |-> 0 - 4],
      [image |-> <<57, 214, 197, 109, 52, 0, 4, 64>>, digits |-> 25001, exp |-> 0 - 4],
      [image |-> <<113, 61, 10, 215, 163, 176, 40, 64>>, digits |-> 12345, exp |-> 0 - 3],
      [image |-> <<20, 174, 71, 225, 122, 20, 240, 63>>, digits |-> 1005, exp |-> 0 - 3],
      [image |-> <<72, 225, 122, 20, 174, 255, 88, 64>>, digits |-> 99995, exp |-> 0 - 3],
      [image |-> <<61, 10, 215, 163, 112, 253, 35, 64>>, digits |-> 9995, exp |-> 0 - 3],
      [image |-> <<51, 51, 51, 51, 51, 51, 247, 63>>, digits |-> 145, exp |-> 0 - 2],
      [image |-> <<102, 102, 102, 102, 102, 102, 5, 64>>, digits |-> 2675, exp |-> 0 - 3],
      [image |-> <<0, 0, 0, 0, 0, 0, 244, 63>>, digits |-> 125, exp |-> 0 - 2],
      [image |-> <<0, 0, 0, 0, 0, 0, 41, 64>>, digits |-> 125, exp |-> 0 - 1],
      [image |-> <<0, 0, 0, 0, 0, 0, 248, 63>>, digits |-> 15, exp |-> 0 - 1],
      [image |-> <<205, 204, 204, 204, 204, 204, 236, 63>>, digits |-> 9, exp |-> 0 - 1],
      [image |-> <<51, 51, 51, 51, 51, 51, 227, 63>>, digits |-> 6, exp |-> 0 - 1],
      [image |-> <<59, 223, 79, 141, 151, 110, 130, 63>>, digits |-> 9, exp |-> 0 - 3],
      [image |-> <<137, 210, 222, 224, 11, 147, 185, 63>>, digits |-> 999, exp |-> 0 - 4],
      [image |-> <<86, 125, 174, 182, 98, 127, 185, 63>>, digits |-> 996, exp |-> 0 - 4],
      [image |-> <<102, 102, 102, 102, 102, 102, 214, 63>>, digits |-> 35, exp |-> 0 - 2],
      [image |-> <<10, 215, 163, 112, 61, 10, 167, 63>>, digits |-> 45, exp |-> 0 - 3],
      [image |-> <<154, 153, 153, 153, 153, 153, 169, 63>>, digits |-> 5, exp |-> 0 - 2],
      [image |-> <<0, 0, 0, 0, 0, 0, 224, 63>>, digits |-> 5, exp |-> 0 - 1],
      [image |-> <<0, 0, 0, 0, 0, 0, 208, 63>>, digits |-> 25, exp |-> 0 - 2],
      [image |-> <<0, 0, 0, 0, 0, 0, 192, 63>>, digits |-> 125, exp |-> 0 - 3],
      [image |-> <<82, 184, 30, 133, 235, 81, 184, 63>>, digits |-> 95, exp |-> 0 - 3],
      [image |-> <<219, 249, 126, 106, 188, 116, 131, 63>>, digits |-> 95, exp |-> 0 - 4],
      [image |-> <<233, 11, 33, 231, 253, 255, 239, 63>>, digits |-> 999999, exp |-> 0 - 6],
      [image |-> <<45, 67, 28, 235, 226, 54, 26, 63>>, digits |-> 1, exp |-> 0 - 4] }
FFormConvs == { Ch("f"), Ch("F") }

FFormInit ==
    /\ hs = <<>>
    /\ printf_lock = 0
    /\ console = <<>>
    /\ mem = <<>>
    /\ results = {}
    /\ ryu = NoHarness
    /\ ita = NoHarness
    /\ sl = NoHarness
    /\ heap = NoHarness
    /\ pa = NoHarness
    /\ \E v \in FFormValues, p \in 0..MaxPrec, conv \in FFormConvs :
         fo = [pc |-> "start", v |-> v, p |-> p,
               fmt |-> (Str(<<"%", ".">>) \o DecText(p)) \o <<conv>>, out |-> <<>>]

FFormRender ==
    /\ fo.pc = "start"
    /\ fo' = [fo EXCEPT !.pc = "done",
                        !.out = XText(fo.fmt, 0, VaList(<<>>, <<>>, <<fo.v.image>>))]
    /\ UNCHANGED <<hs, printf_lock, console, mem, results, ryu, ita, sl, heap, pa>>

FFormNext == FFormRender

SpecFForm == FFormInit /\ [][FFormNext]_vars

\* digits * 10^exp rounded to p fractional digits, ties to even, as a count
\* of units of 10^-p
RoundedUnits(digits, exp, p) ==
    LET drop == (0 - exp) - p
        unit == Pow(10, MaxOf(drop, 0))
        q == digits \div unit
        r == digits % unit
    IN  IF drop <= 0 THEN digits * Pow(10, 0 - drop)
        ELSE IF 2 * r > unit \/ (2 * r = unit /\ q % 2 = 1) THEN q + 1
        ELSE q
\* the text of so many units of 10^-p: integer part, point, p digits
UnitsText(units, p) ==
    LET frac == DecText(units % Pow(10, p))
    IN  DecText(units \div Pow(10, p))
        \o (IF p = 0 THEN <<>>
            ELSE (<<Ch(".")>> \o RunOf(p - Len(frac), Ch("0"))) \o frac)
RoundedText(v, p) == UnitsText(RoundedUnits(v.digits, v.exp, p), p)

f_frac_digits(v) == Len(DecText(v.digits))
f_int_digits(v) == f_frac_digits(v) + v.exp

\* C28: with the point inside the shortest digits and a precision below the
\* number of fractional digits the text is the value rounded ties-to-even to
\* P fractional digits.
C28_PointInsideRounded ==
    (/\ fo.pc = "done"
     /\ 0 < f_int_digits(fo.v) /\ f_int_digits(fo.v) < f_frac_digits(fo.v)
     /\ fo.p < 0 - fo.v.exp)
        => fo.out = RoundedText(fo.v, fo.p)

\* C29: a pure fraction is printed rounded ties-to-even to P fractional
\* digits, also when P does not reach past the leading zeroes and when the
\* rounding carries out of the significant digits.
C29_PureFractionRounded ==
    (fo.pc = "done" /\ f_int_digits(fo.v) <= 0) => fo.out = RoundedText(fo.v, fo.p)

-----------------------------------------------------------------------------
(* Console writes under traps (SpecTrap): the harts call printf or         *)
(* vprintf, and a hart may take the machine timer interrupt at any point   *)
(* outside a trap handler.  hart_handle_machine_timer calls hart_on_mtimer,*)
(* whose WRN is a printf on the interrupted hart; the interrupted code     *)
(* resumes when the handler returns.                                       *)

MaxTraps == 1
\* the text of a call, and the warning of hart_on_mtimer, cut to one character
TrapCallFormat == Str(<<"a">>)
TrapFormat == Str(<<"W">>)

TrapInit ==
    /\ hs = [h \in Harts |-> HartInit(TrapCallFormat, SinkArgs)]
    /\ mem = [h \in Harts |-> [k \in 0..(MemSize - 1) |-> 0]]
    /\ printf_lock = 0
    /\ console = <<>>
    /\ results = {}
    /\ ryu = NoHarness
    /\ sl = NoHarness
    /\ heap = NoHarness
    /\ pa = NoHarness
    /\ ita = NoHarness
    /\ fo = NoHarness

\* the interrupt: the context of hart h is saved and the handler's printf
\* starts; traps are not taken inside the handler
hart_handle_machine_timer(h) ==
    /\ hs[h].saved = <<>>
    /\ hs[h].traps < MaxTraps
    /\ hs' = [hs EXCEPT ![h] =
                [Enter(h, "printf", NULL, SizeT(0)) EXCEPT
                    !.pc = "acquire", !.expected = 0, !.fmt = TrapFormat,
                    !.saved = <<[hs[h] EXCEPT !.traps = @ + 1]>>]]
    /\ UNCHANGED <<printf_lock, console, mem, results, ryu, ita, fo, sl, heap, pa>>

\* the handler's printf has returned: the handler returns and the
\* interrupted code goes on where it was
hart_on_mtimer_return(h) ==
    /\ hs[h].pc = "ret"
    /\ hs[h].saved # <<>>
    /\ results' = results \cup
                    {[hart |-> h, call |-> hs[h].calls, entry |-> "hart_on_mtimer",
                      outbuff |-> hs[h].out.outbuff, cap |-> CapOf(hs[h].out),
                      ret |-> hs[h].ret, trace |-> hs[h].trace]}
    /\ hs' = [hs EXCEPT ![h] = hs[h].saved[1]]
    /\ UNCHANGED <<printf_lock, console, mem, ryu, ita, fo, sl, heap, pa>>

\* what hart h does next on its own
HartStep(h) ==
    \/ lock_acquire(h)
    \/ lock_pause(h)
    \/ yalc_xprintf(h)
    \/ yalc_pf_char_out(h)
    \/ lock_release(h)
    \/ Return(h)
    \/ hart_on_mtimer_return(h)

\* the exchange of lock_acquire stores its 1
AcquireSucceeds(h) == lock_acquire(h) /\ printf_lock' = 1

TrapNext ==
    \E h \in Harts :
        \/ CallsStarted < MaxCalls /\ printf(h)
        \/ CallsStarted < MaxCalls /\ vprintf(h)
        \/ hart_handle_machine_timer(h)
        \/ HartStep(h)

\* Every hart keeps executing, and an exchange that finds the lock free
\* again and again does not fail every time (the forward progress of an
\* lr/sc loop).
HartsFair == \A h \in Harts : WF_vars(HartStep(h)) /\ SF_vars(AcquireSucceeds(h))

SpecTrap == TrapInit /\ [][TrapNext]_vars /\ HartsFair

\* the same harts without interrupts
SpecLockFair == TrapInit /\ [][LockNext]_vars /\ HartsFair

\* C30: every printf or vprintf call eventually returns, also when a trap
\* handler that calls printf runs on a hart that was interrupted while it
\* held printf_lock: a hart that is inside a call is eventually outside of
\* every call.
C30_EveryCallReturns ==
    \A h \in Harts : (hs[h].pc # "idle") ~> (hs[h].pc = "idle" /\ hs[h].saved = <<>>)

\* without interrupts every call returns
C30_CallsReturnWithoutTraps ==
    \A h \in Harts : (hs[h].pc # "idle") ~> (hs[h].pc = "idle")

=============================================================================
